---- MODULE Spec2Model ----
(***************************************************************************)
(* A model of js-callgraph's AST decoration and naming pass (astutil.js),  *)
(* of the native and sequential-flow (Step) support of natives.js and of   *)
(* build() of runner.js: the file filter, the choice of the strategy, the  *)
(* projections of the call graph and the files build() writes.             *)
(*                                                                         *)
(* The parsed input is a ProgramCollection: a sequence `ast` of nodes in   *)
(* the order in which astutil.visit meets them, each node naming its       *)
(* parent node and the property of the parent that holds it.  init(root)   *)
(* walks that tree; the recursion of doVisit is kept as the sequence       *)
(* `work` of pending calls, and one action is one call of the visitor.     *)
(***************************************************************************)
EXTENDS Integers, Sequences, FiniteSets, TLC

VARIABLES
    ast,                \* the ProgramCollection handed to init(): sequence of nodes
    id,                 \* nd.id of every node (init() overwrites it for methods)
    attr,               \* nd.attr of every node
    functions,          \* root.attr.functions
    calls,              \* root.attr.calls
    enclosingFunction,  \* init(): let enclosingFunction
    enclosingFile,      \* init(): let enclosingFile
    anonCounters,       \* init(): const anonCounters = new Map()
    warnings,           \* what init() wrote with console.log
    work,               \* pending doVisit calls and function exits
    scope,              \* nd.attr.scope.get(nd.name) of every Identifier
    fg,                 \* the flow graph: a set of edges
    pseudoCalls,        \* the pseudo call-sites handleStepCall made
    edges,              \* cg.edges: the extracted call graph
    result,             \* what build() returns, or that it threw
    pc,                 \* the stage the run is in
    args,               \* this.args of runner.js
    filter,             \* this.filter: the filter rules
    files,              \* build(): let files
    edgesOfFunctionsCalled, \* build(): var edgesOfFunctionsCalled
    written,            \* the files build() wrote: name and text
    exitCode,           \* the exit code of the process once it has exited
    stderr,             \* what build() wrote with console.warn
    previous            \* what an earlier run on the same sources gave

decoration == <<id, attr, functions, calls, enclosingFunction, enclosingFile,
                anonCounters, warnings, work>>
setup == <<args, filter, files, previous>>
outputs == <<edgesOfFunctionsCalled, written, exitCode, stderr>>
vars == <<ast, id, attr, functions, calls, enclosingFunction, enclosingFile,
          anonCounters, warnings, work, scope, fg, pseudoCalls, edges, result, pc,
          args, filter, files, edgesOfFunctionsCalled, written, exitCode, stderr,
          previous>>

----------------------------------------------------------------------------
(* AST nodes.                                                              *)

FunctionTypes == {"FunctionDeclaration", "FunctionExpression", "ArrowFunctionExpression"}
CallTypes == {"CallExpression", "NewExpression"}

\* A node: its type, its parent node (0: none), the parent's property that
\* holds it, whether that property is an array, its name (Identifier) or
\* value (Literal), its `computed` flag and its filename (Program).
Node(type, parent, prop, inArray, name, computed, file) ==
    [type |-> type, parent |-> parent, prop |-> prop, inArray |-> inArray,
     name |-> name, computed |-> computed, file |-> file]

Nd(type, parent, prop, inArray) == Node(type, parent, prop, inArray, "", FALSE, "")
Ident(name, parent, prop, inArray) == Node("Identifier", parent, prop, inArray, name, FALSE, "")
Lit(value, parent, prop, inArray) == Node("Literal", parent, prop, inArray, value, FALSE, "")

\* `sub` hung below node `at` of a tree that already holds `off` nodes: inside
\* `sub` parent 0 stands for the node it is hung on.
Attach(sub, at, off) ==
    [i \in 1..Len(sub) |->
        [sub[i] EXCEPT !.parent = IF @ = 0 THEN at ELSE @ + off]]

Under(tree, at, sub) == tree \o Attach(sub, at, Len(tree))

RECURSIVE UnderAll(_, _, _)
UnderAll(tree, at, subs) ==
    IF subs = <<>> THEN tree
    ELSE UnderAll(Under(tree, at, Head(subs)), at, Tail(subs))

SeqsUpTo(S, n) == UNION {[1..k -> S] : k \in 0..n}

\* The subtree `sub` as the value of property `prop` of its parent.
As(sub, prop, inArray) == [sub EXCEPT ![1].prop = prop, ![1].inArray = inArray]

RECURSIVE AsAll(_, _, _)
AsAll(subs, prop, inArray) ==
    IF subs = <<>> THEN <<>>
    ELSE <<As(Head(subs), prop, inArray)>> \o AsAll(Tail(subs), prop, inArray)

RECURSIVE ParamNodes(_)
ParamNodes(names) ==
    IF names = <<>> THEN <<>>
    ELSE <<Ident(Head(names), 1, "params", TRUE)>> \o ParamNodes(Tail(names))

\* function fname(params) { body }, as a declaration, a function expression
\* (fname = "": anonymous) or an arrow function; its children are laid out in
\* the order init() visits them: id, params, body.
Fn(type, fname, params, body) ==
    LET head == <<Nd(type, 0, "", FALSE)>>
                \o (IF fname = "" THEN <<>> ELSE <<Ident(fname, 1, "id", FALSE)>>)
                \o ParamNodes(params)
        block == head \o <<Nd("BlockStatement", 1, "body", FALSE)>>
    IN  UnderAll(block, Len(block), AsAll(body, "body", TRUE))

FnDecl(fname, params, body) == Fn("FunctionDeclaration", fname, params, body)

IdentExpr(name) == <<Ident(name, 0, "", FALSE)>>
LitExpr(value) == <<Lit(value, 0, "", FALSE)>>

\* object.property
Member(object, property) ==
    <<Nd("MemberExpression", 0, "", FALSE),
      Ident(object, 1, "object", FALSE), Ident(property, 1, "property", FALSE)>>

\* object.property, the object being any expression
MemberOf(object, property) ==
    UnderAll(<<Nd("MemberExpression", 0, "", FALSE)>>, 1,
             <<As(object, "object", FALSE), As(IdentExpr(property), "property", FALSE)>>)

\* return e;
ReturnStmt(e) == Under(<<Nd("ReturnStatement", 0, "", FALSE)>>, 1, As(e, "argument", FALSE))

ExprStmt(e) == Under(<<Nd("ExpressionStatement", 0, "", FALSE)>>, 1, As(e, "expression", FALSE))

\* var name = init;
VarStmt(name, init) ==
    Under(<<Nd("VariableDeclaration", 0, "", FALSE),
            Nd("VariableDeclarator", 1, "declarations", TRUE),
            Ident(name, 2, "id", FALSE)>>, 2, As(init, "init", FALSE))

\* left = right;
AssignStmt(left, right) ==
    ExprStmt(UnderAll(<<Nd("AssignmentExpression", 0, "", FALSE)>>, 1,
                      <<As(left, "left", FALSE), As(right, "right", FALSE)>>))

\* ({ key: value });  or  ({ [key]: value });
ObjStmt(key, computed, value) ==
    ExprStmt(UnderAll(<<Nd("ObjectExpression", 0, "", FALSE),
                        Node("Property", 1, "properties", TRUE, "", computed, "")>>, 2,
                      <<As(key, "key", FALSE), As(value, "value", FALSE)>>))

\* class A { key(params) { body } }  or  class A { [key]() { body } }
ClassStmt(key, computed, params, body) ==
    UnderAll(<<Nd("ClassDeclaration", 0, "", FALSE),
               Ident("A", 1, "id", FALSE),
               Nd("ClassBody", 1, "body", FALSE),
               Node("MethodDefinition", 3, "body", TRUE, "", computed, "")>>, 4,
             <<As(key, "key", FALSE),
               As(Fn("FunctionExpression", "", params, body), "value", FALSE)>>)

\* callee(args)  or  new callee(args)
Call(type, callee, arguments) ==
    UnderAll(<<Nd(type, 0, "", FALSE)>>, 1,
             <<As(callee, "callee", FALSE)>> \o AsAll(arguments, "arguments", TRUE))

\* One parsed file: Program { body: stmts }, attr.filename = file.
Program(file, stmts) ==
    UnderAll(<<Node("Program", 0, "", FALSE, "", FALSE, file)>>, 1,
             AsAll(stmts, "body", TRUE))

\* astFromFiles: { type: 'ProgramCollection', programs: [...], attr: {} }
Collection(programs) ==
    UnderAll(<<Nd("ProgramCollection", 0, "", FALSE)>>, 1,
             AsAll(programs, "programs", TRUE))

----------------------------------------------------------------------------
(* Reading the tree.                                                       *)

NodeIds == 1..Len(ast)
IsFunction(n) == ast[n].type \in FunctionTypes
IsCall(n) == ast[n].type \in CallTypes

\* nd[prop] for a property that holds one node; 0 when nd has none.
Child(n, prop) ==
    IF \E m \in NodeIds : ast[m].parent = n /\ ast[m].prop = prop
    THEN CHOOSE m \in NodeIds : ast[m].parent = n /\ ast[m].prop = prop
    ELSE 0

\* The nodes held by nd, in the order `for (const p in nd)` meets them.
RECURSIVE ChildrenFrom(_, _)
ChildrenFrom(n, m) ==
    IF m > Len(ast) THEN <<>>
    ELSE (IF ast[m].parent = n THEN <<m>> ELSE <<>>) \o ChildrenFrom(n, m + 1)

Children(n) == ChildrenFrom(n, n + 1)

\* The position of node m in the array that holds it.
ArrayIndex(m) ==
    Cardinality({k \in NodeIds : k < m /\ ast[k].parent = ast[m].parent
                                        /\ ast[k].prop = ast[m].prop})

TypeOf(n) == IF n = 0 THEN "" ELSE ast[n].type

FunctionNodes == {n \in NodeIds : IsFunction(n)}

\* The innermost function that strictly contains node n (0: none).
RECURSIVE EnclosingFn(_)
EnclosingFn(n) ==
    IF ast[n].parent = 0 THEN 0
    ELSE IF IsFunction(ast[n].parent) THEN ast[n].parent
    ELSE EnclosingFn(ast[n].parent)

\* nd[prop] for a property that holds an array of nodes.
ChildList(n, prop) == SelectSeq(Children(n), LAMBDA m : ast[m].prop = prop)

Min(S) == CHOOSE x \in S : \A y \in S : x <= y

\* The values of nd.id: null, a node of the tree, an Identifier that init()
\* made from a Literal key, or no such property.
NullId == [kind |-> "null", nd |-> 0, name |-> ""]
NodeId(n) == [kind |-> "node", nd |-> n, name |-> ast[n].name]
SynthId(key) == [kind |-> "synth", nd |-> key, name |-> ast[key].name]
NoId == [kind |-> "undefined", nd |-> 0, name |-> ""]

ParsedId(tree, n) ==
    IF \E m \in 1..Len(tree) : tree[m].parent = n /\ tree[m].prop = "id"
    THEN LET m == CHOOSE k \in 1..Len(tree) : tree[k].parent = n /\ tree[k].prop = "id"
         IN  [kind |-> "node", nd |-> m, name |-> tree[m].name]
    ELSE IF tree[n].type \in FunctionTypes THEN NullId ELSE NoId

NoAttr == [enclosingFunction |-> 0, enclosingFile |-> "", anonIndex |-> 0,
           parent |-> 0, childProp |-> "", visits |-> 0]

----------------------------------------------------------------------------
(* astutil.init: the decoration pass.                                      *)

VisitItem(n, parent, prop) == [op |-> "visit", nd |-> n, parent |-> parent, prop |-> prop]
LeaveItem(n, old) == [op |-> "leave", nd |-> n, parent |-> old, prop |-> ""]

\* doVisit(nd[p], nd, p) for every property p of nd: a node held in an array
\* is visited with the array as its parent, which has no type.
RECURSIVE VisitAll(_)
VisitAll(ms) ==
    IF ms = <<>> THEN <<>>
    ELSE LET m == Head(ms)
         IN  <<IF ast[m].inArray
               THEN VisitItem(m, 0, ToString(ArrayIndex(m)))
               ELSE VisitItem(m, ast[m].parent, ast[m].prop)>> \o VisitAll(Tail(ms))

\* getNextAnonIndex: the counter of the enclosing function (0: 'global').
getNextAnonIndex(counters, encFunc) == counters[encFunc] + 1

\* A slip in the Property case: a Literal key is treated as in the
\* MethodDefinition case, where it names nothing.
PropertyId_IdentifierKeyOnly(n, parent, old) ==
    IF ast[n].type = "FunctionExpression" /\ TypeOf(parent) = "Property"
       /\ ~ast[parent].computed /\ ast[Child(parent, "key")].type = "Identifier"
    THEN NodeId(Child(parent, "key"))
    ELSE old

\* init(), "Method Definition (Case 1)": the id a function gets from the
\* Property that holds it.
PropertyId(n, parent, old) ==
    IF ast[n].type = "FunctionExpression" /\ TypeOf(parent) = "Property"
       /\ ~ast[parent].computed
    THEN LET key == Child(parent, "key")
         IN  IF ast[key].type = "Identifier" THEN NodeId(key)
             ELSE IF ast[key].type = "Literal" THEN SynthId(key)
             ELSE old
    ELSE old

\* A line of console.log, with the node whose visit wrote it.
Warning(msg, n) == <<[msg |-> msg, at |-> n]>>

PropertyWarning(n, parent) ==
    IF ast[n].type = "FunctionExpression" /\ TypeOf(parent) = "Property"
    THEN IF ast[parent].computed
         THEN Warning("WARNING: Computed property for method definition, not yet supported.", n)
         ELSE IF ast[Child(parent, "key")].type \in {"Identifier", "Literal"} THEN <<>>
         ELSE Warning("WARNING: unexpected key type of 'Property'.", n)
    ELSE <<>>

\* A slip in the MethodDefinition case: a Literal key names the method, as it
\* does in the Property case.
MethodId_LiteralKeyToo(n, old) ==
    IF ~ast[n].computed /\ ast[Child(n, "key")].type \in {"Identifier", "Literal"}
    THEN [kind |-> "node", nd |-> Child(n, "key"), name |-> ast[Child(n, "key")].name]
    ELSE old

\* init(), "Method Definition (Case 2)": the id of nd.value.
MethodId(n, old) ==
    IF ~ast[n].computed /\ ast[Child(n, "key")].type = "Identifier"
    THEN NodeId(Child(n, "key"))
    ELSE old

MethodWarning(n) ==
    IF ast[n].computed
    THEN Warning("WARNING: Computed property for method definition, not yet supported.", n)
    ELSE IF ast[Child(n, "key")].type = "Identifier" THEN <<>>
    ELSE IF ast[Child(n, "key")].type = "Literal"
    THEN Warning("WARNING: invalid syntax, method name is of type Literal instead of Identifier.", n)
    ELSE Warning("WARNING: unexpected key type of 'MethodDefinition'.", n)

\* A slip in hasParentName: the declarator case is left out.
hasParentName_AssignmentOnly(parent) ==
    IF TypeOf(parent) = "AssignmentExpression"
    THEN TypeOf(Child(parent, "left")) = "Identifier"
    ELSE FALSE

\* init(): "Check if parent provides a name".
hasParentName(parent) ==
    IF TypeOf(parent) = "AssignmentExpression"
    THEN TypeOf(Child(parent, "left")) = "Identifier"
    ELSE IF TypeOf(parent) = "VariableDeclarator"
    THEN TypeOf(Child(parent, "id")) = "Identifier"
    ELSE FALSE

\* A slip in willBeAnonymous: the parent is taken to give a name whenever it
\* is an assignment or a declarator, whatever its left side is.
willBeAnonymous_AnyAssignment(idv, parent) ==
    idv.kind = "null" /\ TypeOf(parent) \notin {"AssignmentExpression", "VariableDeclarator"}

\* init(): willBeAnonymous, for a function whose id is idv.
willBeAnonymous(idv, parent) ==
    IF idv.kind = "null" THEN ~hasParentName(parent) ELSE FALSE

\* A slip in the function visit: the body is not visited.
FunctionVisits_WithoutBody(n, idv, old) ==
    (IF idv.kind = "node" THEN <<VisitItem(idv.nd, 0, "")>> ELSE <<>>)
    \o VisitAll(SelectSeq(Children(n), LAMBDA m : ast[m].prop = "params"))
    \o <<LeaveItem(n, old)>>

\* What the function visit leaves pending: doVisit(nd.id), doVisit(nd.params),
\* doVisit(nd.body), each without a parent, then the restore of
\* enclosingFunction.  An Identifier made from a Literal key is no node of the
\* tree and has no children: its visit touches nothing that is read later.
FunctionVisits(n, idv, old) ==
    (IF idv.kind = "node" THEN <<VisitItem(idv.nd, 0, "")>> ELSE <<>>)
    \o VisitAll(SelectSeq(Children(n), LAMBDA m : ast[m].prop = "params"))
    \o (IF Child(n, "body") = 0 THEN <<>> ELSE <<VisitItem(Child(n, "body"), 0, "")>>)
    \o <<LeaveItem(n, old)>>

\* One call of doVisit: nothing for null (a file that did not parse), else
\* the visitor of init() and the visits of the properties of the node.
Visit ==
    /\ pc = "init"
    /\ work # <<>>
    /\ Head(work).op = "visit"
    /\ LET n == Head(work).nd
           parent == Head(work).parent
           childProp == Head(work).prop
           type == ast[n].type
           idv == PropertyId(n, parent, id[n])
           anon == IsFunction(n) /\ willBeAnonymous(idv, parent)
           index == getNextAnonIndex(anonCounters, enclosingFunction)
       IN  IF type = "null"
           THEN /\ work' = Tail(work)
                /\ UNCHANGED <<id, attr, functions, calls, enclosingFunction, enclosingFile,
                               anonCounters, warnings>>
           ELSE
           /\ attr' = [attr EXCEPT ![n] =
                  [enclosingFunction |-> IF enclosingFunction # 0 THEN enclosingFunction
                                         ELSE @.enclosingFunction,
                   enclosingFile |-> IF enclosingFile # "" THEN enclosingFile
                                     ELSE @.enclosingFile,
                   anonIndex |-> IF anon THEN index ELSE @.anonIndex,
                   parent |-> IF IsFunction(n) THEN parent ELSE @.parent,
                   childProp |-> IF IsFunction(n) THEN childProp ELSE @.childProp,
                   visits |-> @.visits + 1]]
           /\ enclosingFile' = IF type = "Program" THEN ast[n].file ELSE enclosingFile
           /\ id' = IF IsFunction(n) THEN [id EXCEPT ![n] = idv]
                    ELSE IF type = "MethodDefinition"
                    THEN [id EXCEPT ![Child(n, "value")] = MethodId(n, @)]
                    ELSE id
           /\ warnings' = warnings \o PropertyWarning(n, parent)
                           \o (IF type = "MethodDefinition" THEN MethodWarning(n) ELSE <<>>)
           /\ functions' = IF IsFunction(n) THEN Append(functions, n) ELSE functions
           /\ anonCounters' = IF anon THEN [anonCounters EXCEPT ![enclosingFunction] = index]
                              ELSE anonCounters
           /\ enclosingFunction' = IF IsFunction(n) THEN n ELSE enclosingFunction
           /\ calls' = IF IsCall(n) THEN Append(calls, n) ELSE calls
           /\ work' = (IF IsFunction(n) THEN FunctionVisits(n, idv, enclosingFunction)
                       ELSE VisitAll(Children(n))) \o Tail(work)
    /\ UNCHANGED <<ast, scope, fg, pseudoCalls, edges, result, pc, setup, outputs>>

\* A slip after the function's visits: enclosingFunction is not restored.
LeaveFunction_NoRestore ==
    /\ pc = "init"
    /\ work # <<>>
    /\ Head(work).op = "leave"
    /\ work' = Tail(work)
    /\ UNCHANGED <<ast, id, attr, functions, calls, enclosingFunction, enclosingFile,
                   anonCounters, warnings, scope, fg, pseudoCalls, edges, result, pc, setup, outputs>>

\* init(): enclosingFunction = old_enclosingFunction, after the function's
\* id, params and body were visited.
LeaveFunction ==
    /\ pc = "init"
    /\ work # <<>>
    /\ Head(work).op = "leave"
    /\ enclosingFunction' = Head(work).parent
    /\ work' = Tail(work)
    /\ UNCHANGED <<ast, id, attr, functions, calls, enclosingFile, anonCounters,
                   warnings, scope, fg, pseudoCalls, edges, result, pc, setup, outputs>>

\* init() has returned.
Decorated == pc = "init" /\ work = <<>>

----------------------------------------------------------------------------
(* astutil.funcname: label rendering.                                      *)

\* What a JavaScript call gives besides a string.
Undefined == "<undefined>"
TypeError == "<TypeError>"

RECURSIVE funcname(_)
\* A slip in encFuncName: the top level is named after the last file read.
encFuncName_NamesTheFile(encFunc) ==
    IF encFunc = 0 THEN "global:" \o enclosingFile ELSE funcname(encFunc)

\* encFuncName: encFunc can be undefined.
encFuncName(encFunc) == IF encFunc = 0 THEN "global" ELSE funcname(encFunc)

\* A slip in funcname: the parent's name is taken before the function's own.
funcname_ParentFirst(func) ==
    IF func = 0 THEN Undefined
    ELSE LET parent == attr[func].parent
         IN  IF TypeOf(parent) = "AssignmentExpression"
                /\ TypeOf(Child(parent, "left")) = "Identifier"
             THEN ast[Child(parent, "left")].name
             ELSE IF TypeOf(parent) = "VariableDeclarator"
                     /\ TypeOf(Child(parent, "id")) = "Identifier"
             THEN ast[Child(parent, "id")].name
             ELSE IF id[func].kind = "node" \/ id[func].kind = "synth" THEN id[func].name
             ELSE IF id[func].kind = "undefined" THEN TypeError
             ELSE IF attr[func].anonIndex # 0
             THEN encFuncName(attr[func].enclosingFunction)
                  \o ":anon[" \o ToString(attr[func].anonIndex) \o "]"
             ELSE "anon"

\* funcname: func must be a function node; a node without an id property makes
\* func.id.name throw.
funcname(func) ==
    IF func = 0 THEN Undefined
    ELSE IF id[func].kind = "null"
    THEN LET parent == attr[func].parent
         IN  IF TypeOf(parent) = "AssignmentExpression"
                /\ TypeOf(Child(parent, "left")) = "Identifier"
             THEN ast[Child(parent, "left")].name
             ELSE IF TypeOf(parent) = "VariableDeclarator"
                     /\ TypeOf(Child(parent, "id")) = "Identifier"
             THEN ast[Child(parent, "id")].name
             ELSE IF attr[func].anonIndex # 0
             THEN LET parentName == encFuncName(attr[func].enclosingFunction)
                  IN  IF parentName = TypeError THEN TypeError
                      ELSE parentName \o ":anon[" \o ToString(attr[func].anonIndex) \o "]"
             ELSE "anon"
    ELSE IF id[func].kind = "undefined" THEN TypeError
    ELSE id[func].name

isAnon(funcName) == funcName = "anon"

----------------------------------------------------------------------------
(* bindings.addBindings: scopes (bindings.js, after the design document).   *)

\* An Identifier that declares a name: the id of a function declaration, of a
\* declarator or of a class, or a parameter.
IsDeclaration(d) ==
    /\ ast[d].type = "Identifier"
    /\ \/ /\ ast[d].prop = "id"
          /\ TypeOf(ast[d].parent) \in {"FunctionDeclaration", "VariableDeclarator",
                                        "ClassDeclaration"}
       \/ ast[d].prop = "params"

\* The function scope a declaration binds in (0: the global scope): function
\* and var declarations are hoisted to the enclosing function.
DeclScope(d) ==
    IF ast[d].prop = "id" /\ TypeOf(ast[d].parent) = "FunctionDeclaration"
    THEN EnclosingFn(ast[d].parent)
    ELSE EnclosingFn(d)

\* Walk outward from scope F until a binding of name is found; the first
\* binding of a scope wins; 0: no binding.
RECURSIVE Lookup(_, _)
Lookup(name, F) ==
    LET ds == {d \in NodeIds : IsDeclaration(d) /\ DeclScope(d) = F /\ ast[d].name = name}
    IN  IF ds # {} THEN Min(ds)
        ELSE IF F = 0 THEN 0
        ELSE Lookup(name, EnclosingFn(F))

Resolve(n) ==
    Lookup(ast[n].name, IF IsDeclaration(n) THEN DeclScope(n) ELSE EnclosingFn(n))

addBindings ==
    /\ pc = "init"
    /\ work = <<>>
    /\ scope' = [n \in NodeIds |-> IF ast[n].type = "Identifier" THEN Resolve(n) ELSE 0]
    /\ pc' = "bindings"
    /\ UNCHANGED <<ast, decoration, fg, pseudoCalls, edges, result, setup, outputs>>

----------------------------------------------------------------------------
(* The flow graph (flowgraph.js, after the design document).               *)

Vertex(k, n, s) == [k |-> k, n |-> n, s |-> s]
funcVertex(fn) == Vertex("Func", fn, "")
exprVertex(nd) == Vertex("Expr", nd, "")
varVertex(decl) == Vertex("Var", decl, "")
globVertex(name) == Vertex("Glob", 0, name)
propVertex(name) == Vertex("Prop", 0, name)
calleeVertex(call) == Vertex("Callee", call, "")
argVertex(call, i) == Vertex("Arg", call, ToString(i))
resVertex(call) == Vertex("Res", call, "")
retVertex(fn) == Vertex("Ret", fn, "")
unknownVertex == Vertex("Unknown", 0, "")
nativeVertex(name) == Vertex("Native", 0, name)

Edge(from, to) == [from |-> from, to |-> to]

\* The vertex of the variable an Identifier resolves to: a local, or a global.
declVertex(nd) ==
    IF scope[nd] = 0 \/ DeclScope(scope[nd]) = 0 THEN globVertex(ast[nd].name)
    ELSE varVertex(scope[nd])

\* The vertex of an expression node.
vertexFor(nd) == exprVertex(nd)

\* An identifier in rvalue position.
IsRvalue(nd) ==
    /\ ast[nd].type = "Identifier"
    /\ ast[nd].prop \in {"callee", "arguments", "init", "right", "object", "expression",
                         "argument"}

\* Rules 1 to 6, 8 and 9 for one node; the programs of the model hold no
\* destructuring.
NodeEdges(nd) ==
    LET type == ast[nd].type
    IN  (IF type = "VariableDeclarator" /\ Child(nd, "init") # 0
         THEN {Edge(vertexFor(Child(nd, "init")), declVertex(Child(nd, "id")))} ELSE {})
        \cup
        (IF type = "AssignmentExpression"
         THEN LET left == Child(nd, "left")
              IN  IF ast[left].type = "Identifier"
                  THEN {Edge(vertexFor(Child(nd, "right")), declVertex(left))}
                  ELSE {Edge(vertexFor(Child(nd, "right")),
                             propVertex(ast[Child(left, "property")].name))}
         ELSE {})
        \cup (IF IsRvalue(nd) THEN {Edge(declVertex(nd), vertexFor(nd))} ELSE {})
        \cup
        (IF type = "MemberExpression" /\ ast[nd].prop # "left"
         THEN {Edge(propVertex(ast[Child(nd, "property")].name), vertexFor(nd))} ELSE {})
        \cup
        (IF IsFunction(nd)
         THEN {Edge(funcVertex(nd), vertexFor(nd))}
              \cup (IF type = "FunctionDeclaration"
                    THEN {Edge(funcVertex(nd), declVertex(Child(nd, "id")))} ELSE {})
         ELSE {})
        \cup
        (IF IsCall(nd)
         THEN {Edge(vertexFor(Child(nd, "callee")), calleeVertex(nd)),
               Edge(resVertex(nd), vertexFor(nd))}
              \cup {Edge(vertexFor(a), argVertex(nd, ArrayIndex(a))) :
                        a \in {m \in NodeIds : ast[m].parent = nd /\ ast[m].prop = "arguments"}}
         ELSE {})
        \cup
        (IF type = "ReturnStatement" /\ EnclosingFn(nd) # 0
         THEN {Edge(vertexFor(Child(nd, "argument")), retVertex(EnclosingFn(nd)))} ELSE {})
        \cup
        (IF type \in {"Property", "MethodDefinition"} /\ ~ast[nd].computed
         THEN IF type = "Property"
              THEN {Edge(vertexFor(Child(nd, "value")), propVertex(ast[Child(nd, "key")].name))}
              ELSE {Edge(funcVertex(Child(nd, "value")), propVertex(ast[Child(nd, "key")].name))}
         ELSE {})

addIntraproceduralFlowGraphEdges ==
    /\ pc = "natives"
    /\ fg' = fg \cup UNION {NodeEdges(nd) : nd \in NodeIds}
    /\ pc' = "intraprocedural"
    /\ UNCHANGED <<ast, decoration, scope, pseudoCalls, edges, result, setup, outputs>>

----------------------------------------------------------------------------
(* natives.js: the natives.                                                *)

\* harness.js, nativeFlows: the natives of the model and the property each
\* of them is reached by.
nativeFlows ==
    <<[native |-> "setTimeout", target |-> "setTimeout"],
      [native |-> "Array_prototype_forEach", target |-> "forEach"],
      [native |-> "Promise_prototype_then", target |-> "then"],
      [native |-> "Array_prototype_indexOf", target |-> "indexOf"],
      [native |-> "String_prototype_indexOf", target |-> "indexOf"]>>

\* A slip in addNativeFlowEdges: the property is named after the native.
NativeFlowEdges_ToOwnName(table) ==
    {Edge(nativeVertex(table[i].native), propVertex(table[i].native)) : i \in 1..Len(table)}

\* addNativeFlowEdges: the edges the loop over the table adds.
NativeFlowEdges(table) ==
    {Edge(nativeVertex(table[i].native), propVertex(table[i].target)) : i \in 1..Len(table)}

addNativeFlowEdges ==
    /\ pc = "bindings"
    /\ fg' = fg \cup NativeFlowEdges(nativeFlows)
    /\ pc' = "natives"
    /\ UNCHANGED <<ast, decoration, scope, pseudoCalls, edges, result, setup, outputs>>

----------------------------------------------------------------------------
(* natives.js: the sequential-flow combinator Step.                        *)

isStepCall(call) ==
    /\ ast[call].type = "CallExpression"
    /\ ast[Child(call, "callee")].type = "Identifier"
    /\ ast[Child(call, "callee")].name = "Step"

\* handleStepCall: const steps = call.arguments.filter(...)
Steps(call) ==
    SelectSeq(ChildList(call, "arguments"),
              LAMBDA arg : ast[arg].type \in {"FunctionExpression", "ArrowFunctionExpression",
                                              "Identifier"})

\* handleStepCall: the function of root.attr.functions that the identifier
\* `step` is resolved to, or `step` itself.
resolveFunctionNode(step) ==
    IF ast[step].type = "Identifier" /\ scope[step] # 0
       /\ ast[scope[step]].name = ast[step].name
    THEN LET declId == scope[step]
             found == {i \in 1..Len(functions) :
                         LET func == functions[i]
                         IN  \/ id[func].kind = "node" /\ id[func].nd = declId
                             \/ /\ id[func].kind = "null"
                                /\ attr[func].enclosingFunction = 0
                                /\ funcname(func) = ast[step].name}
         IN  IF found = {} THEN step ELSE functions[Min(found)]
    ELSE step

\* handleStepCall: the vertex of a step.
stepVertex(step) ==
    IF ast[step].type = "Identifier" THEN vertexFor(step) ELSE funcVertex(step)

\* A slip in handleStepCall: the pseudo call-site of a pair is attributed to
\* the function that holds the Step call.
PseudoCallsOf_InStepCaller(call) ==
    LET steps == Steps(call)
    IN  [i \in 1..(Len(steps) - 1) |->
            [callee |-> steps[i + 1],
             loc |-> steps[i],
             enclosingFunction |-> attr[call].enclosingFunction,
             enclosingFile |-> attr[call].enclosingFile,
             call |-> call]]

\* handleStepCall: the pseudo call-sites of one Step call, one for each pair
\* of adjacent steps.
PseudoCallsOf(call) ==
    LET steps == Steps(call)
    IN  [i \in 1..(Len(steps) - 1) |->
            [callee |-> steps[i + 1],
             loc |-> steps[i],
             enclosingFunction |-> resolveFunctionNode(steps[i]),
             enclosingFile |-> attr[call].enclosingFile,
             call |-> call]]

\* handleStepCall: the edges one Step call adds, its pseudo call-sites being
\* base + 1, base + 2, ...
handleStepCall(call, base) ==
    LET steps == Steps(call)
    IN  IF Len(steps) = 0 THEN {}
        ELSE {Edge(stepVertex(steps[1]), calleeVertex(call))}
             \cup UNION {{Edge(stepVertex(steps[i + 1]), calleeVertex(base + i)),
                          Edge(retVertex(resolveFunctionNode(steps[i])), calleeVertex(base + i))} :
                         i \in 1..(Len(steps) - 1)}

\* The Step calls in the order astutil.visit meets them.
StepCalls == SelectSeq([n \in NodeIds |-> n], LAMBDA n : ast[n].type = "CallExpression" /\ isStepCall(n))

RECURSIVE AllPseudoCalls(_)
AllPseudoCalls(cs) ==
    IF cs = <<>> THEN <<>>
    ELSE PseudoCallsOf(Head(cs)) \o AllPseudoCalls(Tail(cs))

RECURSIVE AllStepEdges(_, _)
AllStepEdges(cs, base) ==
    IF cs = <<>> THEN {}
    ELSE handleStepCall(Head(cs), base)
         \cup AllStepEdges(Tail(cs), base + Len(PseudoCallsOf(Head(cs))))

addStepFlowEdges ==
    /\ pc = "intraprocedural"
    /\ pseudoCalls' = AllPseudoCalls(StepCalls)
    /\ fg' = fg \cup AllStepEdges(StepCalls, Len(ast))
    /\ pc' = "step"
    /\ UNCHANGED <<ast, decoration, scope, edges, result, setup, outputs>>

----------------------------------------------------------------------------
(* The strategies and the extractor (pessimistic.js, semioptimistic.js,    *)
(* callgraph.js, after the design document).                               *)

\* The function literal a one-shot call invokes, or 0: the callee itself, or
\* the object of a callee of the form literal.call or literal.apply.
OneShotCallee(call) ==
    LET callee == Child(call, "callee")
    IN  IF IsFunction(callee) THEN callee
        ELSE IF /\ ast[callee].type = "MemberExpression"
                /\ IsFunction(Child(callee, "object"))
                /\ ast[Child(callee, "property")].name \in {"call", "apply"}
             THEN Child(callee, "object")
             ELSE 0

\* A call whose callee is a function literal.
IsOneShotCall(call) == IsCall(call) /\ OneShotCallee(call) # 0
OneShotCallees == {OneShotCallee(c) : c \in {n \in NodeIds : IsCall(n) /\ IsOneShotCall(n)}}

\* The edges a call of fn at call-site c stands for.
CallEdges(fn, c) ==
    {Edge(retVertex(fn), resVertex(c))}
    \cup {Edge(argVertex(c, ArrayIndex(p)), varVertex(p)) :
             p \in {m \in NodeIds : ast[m].parent = fn /\ ast[m].prop = "params"}}

\* What is outside the model: the parameters and the result of fn.
UnknownEdges(fn) ==
    {Edge(retVertex(fn), unknownVertex)}
    \cup {Edge(unknownVertex, varVertex(p)) :
             p \in {m \in NodeIds : ast[m].parent = fn /\ ast[m].prop = "params"}}

\* NONE: no call is followed.
NoInterproceduralEdges == UNION {UnknownEdges(fn) : fn \in FunctionNodes}

\* ONESHOT: the one-shot calls are followed.
InterproceduralEdges ==
    UNION {CallEdges(OneShotCallee(c), c) : c \in {n \in NodeIds : IsCall(n) /\ IsOneShotCall(n)}}
    \cup UNION {UnknownEdges(fn) : fn \in FunctionNodes \ OneShotCallees}

\* Reachability: the vertices reached from those of S along the edges of G.
\* Unknown is a sink and a source: what flows into it is outside the model,
\* and is not what flows out of it.
RECURSIVE ReachableIn(_, _)
ReachableIn(G, S) ==
    LET T == S \cup {e.to : e \in {d \in G : d.from \in S /\ d.from.k # "Unknown"}}
    IN  IF T = S THEN S ELSE ReachableIn(G, T)

\* A slip in DEMAND: the results of the calls are not followed.
DemandEdges_ArgumentsOnly(G) ==
    UNION {UNION {CallEdges(fn, v.n) \ {Edge(retVertex(fn), resVertex(v.n))} :
                     v \in {w \in ReachableIn(G, {funcVertex(fn)}) : w.k = "Callee"}} :
           fn \in FunctionNodes}

\* DEMAND, one round: the calls of every function that reaches a callee slot.
DemandEdges(G) ==
    UNION {UNION {CallEdges(fn, v.n) :
                     v \in {w \in ReachableIn(G, {funcVertex(fn)}) : w.k = "Callee"}} :
           fn \in FunctionNodes}

\* A slip in build(): every strategy is handed to the pessimistic builder.
builder_AlwaysPessimistic(strategy) == "pessimistic"

\* build(): pessimistic.buildCallGraph(ast, args.strategy === 'NONE') for
\* NONE and ONESHOT, semioptimistic.buildCallGraph(ast) for DEMAND.
builder(strategy) ==
    IF strategy \in {"NONE", "ONESHOT"} THEN "pessimistic" ELSE "semioptimistic"
noOneShot(strategy) == strategy = "NONE"

\* The edges the pessimistic builder adds.
PessimisticEdges(none) == IF none THEN NoInterproceduralEdges ELSE InterproceduralEdges

\* The strategy at work.  DEMAND is a loop: a round adds the edges of the
\* calls found on the graph of the round before, and the loop ends after a
\* round that adds nothing.
addInterproceduralFlowEdges ==
    /\ pc = "step"
    /\ IF builder(args.strategy) = "pessimistic"
       THEN /\ fg' = fg \cup PessimisticEdges(noOneShot(args.strategy))
            /\ pc' = "interprocedural"
       ELSE /\ fg' = fg \cup DemandEdges(fg)
            /\ pc' = IF DemandEdges(fg) \subseteq fg THEN "interprocedural" ELSE "step"
    /\ UNCHANGED <<ast, decoration, scope, pseudoCalls, edges, result, setup, outputs>>

\* Reachability: the vertices reached from those of S along the edges of fg.
Reachable(S) == ReachableIn(fg, S)

\* The call graph of a flow graph: every Func(fn) that reaches Callee(c) gives
\* the edge c -> fn, every Native(n) that reaches it the edge c -> native(n).
CallGraph(G) ==
    UNION {{[call |-> v.n, fn |-> functions[i], native |-> ""] :
               v \in {w \in ReachableIn(G, {funcVertex(functions[i])}) : w.k = "Callee"}} :
           i \in 1..Len(functions)}
    \cup UNION {{[call |-> v.n, fn |-> 0, native |-> nativeFlows[i].native] :
                    v \in {w \in ReachableIn(G, {nativeVertex(nativeFlows[i].native)}) :
                              w.k = "Callee"}} :
                i \in 1..Len(nativeFlows)}

extractCG ==
    /\ pc = "interprocedural"
    /\ edges' = CallGraph(fg)
    /\ pc' = "callgraph"
    /\ UNCHANGED <<ast, decoration, scope, fg, pseudoCalls, result, setup, outputs>>

----------------------------------------------------------------------------
(* runner.js: build(), the file filter and the strategy.                   *)

\* A path, a filter rule and a pattern are sequences of characters.
RECURSIVE PathString(_)
PathString(p) == IF p = <<>> THEN "" ELSE Head(p) \o PathString(Tail(p))

\* String.prototype.trim: without the blanks at both ends.
RECURSIVE trimStart(_)
trimStart(s) == IF s # <<>> /\ Head(s) = " " THEN trimStart(Tail(s)) ELSE s
Reverse(s) == [i \in 1..Len(s) |-> s[Len(s) + 1 - i]]
trim(s) == Reverse(trimStart(Reverse(trimStart(s))))

\* new RegExp(trunk, "gm").test(file), for a trunk of literal characters and
\* of `.`, which stands for any character.
test(trunk, file) ==
    \E i \in 0..(Len(file) - Len(trunk)) :
        \A j \in 1..Len(trunk) : trunk[j] = "." \/ trunk[j] = file[i + j]

\* Array.prototype.remove: every occurrence of `what` leaves the array.
remove(array, what) == SelectSeq(array, LAMBDA x : x # what)

\* A slip in the filter: a matching `+` rule is ignored.
applyRule_NoPush(filteredfiles, file, elem) ==
    IF elem # <<>> /\ Head(elem) = "-" /\ test(trim(Tail(elem)), file)
    THEN remove(filteredfiles, file)
    ELSE filteredfiles

\* build(): the body of filter.forEach for one rule and one file.
applyRule(filteredfiles, file, elem) ==
    LET trunk == trim(IF elem = <<>> THEN <<>> ELSE Tail(elem))
        res == test(trunk, file)
        startsWith(c) == elem # <<>> /\ Head(elem) = c
        removed == IF res /\ startsWith("-") THEN remove(filteredfiles, file)
                   ELSE filteredfiles
    IN  IF res /\ startsWith("+") THEN Append(removed, file) ELSE removed

RECURSIVE applyRules(_, _, _)
applyRules(filteredfiles, file, rules) ==
    IF rules = <<>> THEN filteredfiles
    ELSE applyRules(applyRule(filteredfiles, file, Head(rules)), file, Tail(rules))

\* build(): the body of files.forEach, for the files fs in turn.
RECURSIVE filterFiles(_, _, _)
filterFiles(filteredfiles, fs, rules) ==
    IF fs = <<>> THEN filteredfiles
    ELSE filterFiles(applyRules(Append(filteredfiles, Head(fs)), Head(fs), rules),
                     Tail(fs), rules)

\* Array.from(new Set(array)): the first occurrence of every element.
RECURSIVE unique(_)
unique(array) ==
    IF array = <<>> THEN <<>>
    ELSE <<Head(array)>> \o unique(remove(Tail(array), Head(array)))

\* build(): the files that are analysed.
FilteredFiles(fs, rules) ==
    IF Len(rules) > 0 THEN unique(filterFiles(<<>>, fs, rules)) ELSE fs

\* The Program, or the collection, that holds node n of a tree.
RECURSIVE FileRoot(_, _)
FileRoot(tree, n) ==
    IF tree[n].type \in {"Program", "ProgramCollection"} THEN n
    ELSE FileRoot(tree, tree[n].parent)

\* astutil.parse of one file: its Program, as the sources `tree` hold it.
parse(tree, file) ==
    LET root == CHOOSE n \in 1..Len(tree) : tree[n].type = "Program" /\ tree[n].file = file
        size == Cardinality({n \in 1..Len(tree) : FileRoot(tree, n) = root})
    IN  [i \in 1..size |->
            [tree[root + i - 1] EXCEPT
                !.parent = IF i = 1 THEN 0 ELSE @ - (root - 1),
                !.prop = IF i = 1 THEN "" ELSE @,
                !.inArray = IF i = 1 THEN FALSE ELSE @]]

\* The parser throws on the source of `file`: in the sources such a file is a
\* Program of the name SyntaxError, which holds what was read before the error.
ParseFails(tree, file) ==
    \E n \in 1..Len(tree) :
        tree[n].type = "Program" /\ tree[n].file = file /\ tree[n].name = "SyntaxError"

\* A slip in buildProgram: what the parser read before the error is returned.
buildProgram_KeepsWhatWasRead(tree, file) == parse(tree, file)

\* astutil.buildProgram: the Program of the file, or null when parse throws.
buildProgram(tree, file) ==
    IF ParseFails(tree, file) THEN <<Nd("null", 0, "", FALSE)>> ELSE parse(tree, file)

\* buildProgram: the lines reportError writes with console.log, for the files
\* fs in turn.
reportError(tree, fs) ==
    LET failing == SelectSeq(fs, LAMBDA f : ParseFails(tree, PathString(f)))
    IN  [i \in 1..Len(failing) |->
            [msg |-> "Warning: Parsing failed for" \o PathString(failing[i]), at |-> 0]]

\* astutil.astFromFiles: the collection of the files fs, in their order.
astFromFiles(tree, fs) ==
    Collection([i \in 1..Len(fs) |-> buildProgram(tree, PathString(fs[i]))])

Strategies == {"NONE", "ONESHOT", "DEMAND", "FULL"}

\* process.exit(code): the exit status is the low byte of the code.
ExitStatus(code) == code % 256

\* A slip in build(): FULL is analysed as ONESHOT.
ResolvedStrategy_FullIsOneShot(strategy) ==
    IF strategy \in {"", "FULL"} THEN "ONESHOT" ELSE strategy

\* build(): args.strategy = args.strategy || 'ONESHOT', and FULL is DEMAND.
ResolvedStrategy(strategy) ==
    LET s == IF strategy = "" THEN "ONESHOT" ELSE strategy
    IN  IF s = "FULL" THEN "DEMAND" ELSE s

\* build(): the console.warn of an unknown strategy, and of FULL.
StrategyWarning(strategy) ==
    IF strategy = "FULL" THEN <<"strategy FULL not implemented yet; using DEMAND instead">>
    ELSE IF strategy \notin Strategies \cup {""} THEN <<"Unknown strategy: " \o strategy>>
    ELSE <<>>

\* build(), up to astutil.astFromFiles: the filter, the strategy, the parse.
\* Before it `ast` holds what the parser makes of every input file.
configure ==
    /\ pc = "start"
    /\ files' = FilteredFiles(files, filter)
    /\ args' = [args EXCEPT !.strategy = ResolvedStrategy(args.strategy)]
    /\ stderr' = stderr \o StrategyWarning(args.strategy)
    /\ IF ResolvedStrategy(args.strategy) \notin Strategies
       THEN /\ exitCode' = <<ExitStatus(-1)>>
            /\ pc' = "exit"
            /\ UNCHANGED <<ast, decoration, scope>>
       ELSE /\ ast' = astFromFiles(ast, files')
            /\ id' = [n \in 1..Len(ast') |-> ParsedId(ast', n)]
            /\ attr' = [n \in 1..Len(ast') |-> NoAttr]
            /\ anonCounters' = [n \in 0..Len(ast') |-> 0]
            /\ scope' = [n \in 1..Len(ast') |-> 0]
            /\ warnings' = warnings \o reportError(ast, files')
            /\ pc' = "init"
            /\ UNCHANGED <<functions, calls, enclosingFunction, enclosingFile, work, exitCode>>
    /\ UNCHANGED <<fg, pseudoCalls, edges, result, filter, edgesOfFunctionsCalled, written,
                   previous>>

----------------------------------------------------------------------------
(* runner.js: rendering the edges.                                         *)

\* nd.attr of a call-site: a node of the tree, or a pseudo call-site.
CallEnclosingFunction(call) ==
    IF call <= Len(ast) THEN attr[call].enclosingFunction
    ELSE pseudoCalls[call - Len(ast)].enclosingFunction
CallEnclosingFile(call) ==
    IF call <= Len(ast) THEN attr[call].enclosingFile
    ELSE pseudoCalls[call - Len(ast)].enclosingFile

\* The program (file) that holds node n.
RECURSIVE ProgramOf(_)
ProgramOf(n) == IF ast[n].type = "Program" THEN n ELSE ProgramOf(ast[n].parent)

\* nd.range and nd.loc of the parser, which reads one file at a time: the
\* k-th node of a file starts at offset k, on line k, and ends where its last
\* descendant ends.
range(nd) ==
    LET last == nd + Cardinality({m \in NodeIds :
                                     m > nd /\ \A k \in (nd + 1)..m : ast[k].parent >= nd})
    IN  [start |-> nd - ProgramOf(nd), end |-> last + 1 - ProgramOf(nd)]
NullRange == [start |-> 0, end |-> 0]

\* The node whose range and loc a call-site has: a pseudo call-site has
\* those of its step.
CallLoc(call) == IF call <= Len(ast) THEN call ELSE pseudoCalls[call - Len(ast)].loc

\* addNode: label, file and place (start, end and range) of the source
\* (CalleeVertex) or of the target (FuncVertex, NativeVertex).
addNode(v) ==
    IF v.k = "Callee"
    THEN [label |-> encFuncName(CallEnclosingFunction(v.n)), file |-> CallEnclosingFile(v.n),
          range |-> range(CallLoc(v.n))]
    ELSE IF v.k = "Func"
    THEN [label |-> funcname(v.n), file |-> attr[v.n].enclosingFile, range |-> range(v.n)]
    ELSE [label |-> v.s, file |-> "Native", range |-> NullRange]

buildBinding(call, fn) == [source |-> addNode(call), target |-> addNode(fn)]

\* The target vertex of an edge of the call graph.
TargetVertex(e) == IF e.fn # 0 THEN funcVertex(e.fn) ELSE nativeVertex(e.native)

\* cg.edges.iter: the edges in the order of their call-sites, the functions
\* before the natives.
EdgeRank(e) ==
    e.call * (Len(ast) + Len(nativeFlows) + 1)
    + (IF e.fn # 0 THEN e.fn
       ELSE Len(ast) + Min({i \in 1..Len(nativeFlows) : nativeFlows[i].native = e.native}))

RECURSIVE iter(_)
iter(E) ==
    IF E = {} THEN <<>>
    ELSE LET first == CHOOSE e \in E : \A d \in E : EdgeRank(e) <= EdgeRank(d)
         IN  <<first>> \o iter(E \ {first})

\* call.callee and call.arguments of a call-site.
CallCallee(call) ==
    IF call <= Len(ast) THEN Child(call, "callee") ELSE pseudoCalls[call - Len(ast)].callee
CallArguments(call) == IF call <= Len(ast) THEN ChildList(call, "arguments") ELSE <<>>

\* astutil.basename: what follows the last slash, or the last backslash.
basename(filename) ==
    IF filename = "" THEN "<???>"
    ELSE LET known == {files[i] : i \in 1..Len(files)}
                      \cup {previous.files[i] : i \in 1..Len(previous.files)}
             path == CHOOSE q \in known : PathString(q) = filename
             at(c) == {i \in 1..Len(path) : path[i] = c}
             idx == IF at("/") # {} THEN CHOOSE i \in at("/") : \A j \in at("/") : j <= i
                    ELSE IF at("\\") # {} THEN CHOOSE i \in at("\\") : \A j \in at("\\") : j <= i
                    ELSE 0
         IN  PathString(SubSeq(path, idx + 1, Len(path)))

\* astutil.ppPos: file@line:start-end
ppPos(file, nd) ==
    basename(file) \o "@" \o ToString(range(nd).start) \o ":"
    \o ToString(range(nd).start) \o "-" \o ToString(range(nd).end)

ppAcg(v) ==
    IF v.k = "Callee" THEN ppPos(CallEnclosingFile(v.n), CallLoc(v.n))
    ELSE IF v.k = "Func" THEN ppPos(attr[v.n].enclosingFile, v.n)
    ELSE v.s

\* An entry of edgesOfFunctionsCalled: caller and callee of the static and
\* of the native projection, the text of the ACG one.
NoPlace == [file |-> "", range |-> NullRange]
Entry(caller, callee) == [caller |-> caller, callee |-> callee, text |-> ""]
TextEntry(text) == [caller |-> NoPlace, callee |-> NoPlace, text |-> text]

\* calledFunctions.some(equals), and the push when it is false.
addEntry(entries, entry) ==
    IF \E i \in 1..Len(entries) :
          entries[i].caller = entry.caller /\ entries[i].callee = entry.callee
    THEN entries
    ELSE Append(entries, entry)

\* retrieveAllCalledFunctionsStatic: the callback of cg.edges.iter, for the
\* edges of `list` in turn.
RECURSIVE StaticEntries(_, _)
StaticEntries(list, calledFunctions) ==
    IF list = <<>> THEN calledFunctions
    ELSE LET e == Head(list)
             enclosing_function == attr[CallCallee(e.call)].enclosingFunction
             caller == [file |-> CallEnclosingFile(e.call),
                        range |-> IF enclosing_function # 0 THEN range(enclosing_function)
                                  ELSE NullRange]
             callee == [file |-> attr[e.fn].enclosingFile, range |-> range(e.fn)]
         IN  StaticEntries(Tail(list),
                           IF e.fn = 0 THEN calledFunctions
                           ELSE addEntry(calledFunctions, Entry(caller, callee)))

retrieveAllCalledFunctionsStatic(list) == StaticEntries(list, <<>>)

\* handle_function_argument: the entry of the argument func of a native call.
handle_function_argument(call, func) ==
    LET enclosing_function == CallEnclosingFunction(call)
    IN  Entry(IF enclosing_function # 0
              THEN [file |-> attr[enclosing_function].enclosingFile,
                    range |-> range(enclosing_function)]
              ELSE [file |-> CallEnclosingFile(call), range |-> NullRange],
              [file |-> attr[func].enclosingFile, range |-> range(func)])

\* The loop over the arguments of one native call.
RECURSIVE ArgumentEntries(_, _, _)
ArgumentEntries(call, arguments, functions_called) ==
    IF arguments = <<>> THEN functions_called
    ELSE ArgumentEntries(call, Tail(arguments),
                         IF ast[Head(arguments)].type = "FunctionExpression"
                         THEN addEntry(functions_called,
                                       handle_function_argument(call, Head(arguments)))
                         ELSE functions_called)

\* retrieveAllCalledFunctionsNative: the callback of cg.edges.iter.
RECURSIVE NativeEntries(_, _)
NativeEntries(list, functions_called) ==
    IF list = <<>> THEN functions_called
    ELSE LET e == Head(list)
         IN  NativeEntries(Tail(list),
                           IF e.fn = 0
                           THEN ArgumentEntries(e.call, CallArguments(e.call), functions_called)
                           ELSE functions_called)

retrieveAllCalledFunctionsNative(list) == NativeEntries(list, <<>>)

retrieveAllCalledFunctionsACG(list) ==
    [i \in 1..Len(list) |->
        TextEntry(ppAcg(calleeVertex(list[i].call)) \o " -> " \o ppAcg(TargetVertex(list[i])))]

\* build(): the projection written to edgesOfFunctionsCalled.
Projection(strategy, analyzertype, list) ==
    IF strategy \in {"NONE", "ONESHOT"} THEN retrieveAllCalledFunctionsACG(list)
    ELSE IF analyzertype = "nativecalls" THEN retrieveAllCalledFunctionsNative(list)
    ELSE IF analyzertype = "static" THEN retrieveAllCalledFunctionsStatic(list)
    ELSE <<>>

\* The text of a file: a sequence of tokens.  JSON.stringify of an object
\* is one token that holds the object.
Token(tok) == [tok |-> tok, val |-> <<>>]
ValueToken(val) == [tok |-> "value", val |-> <<val>>]

\* JSON.stringify(value) + rest, where value is array[i] or, past the ends of
\* the array, undefined.
stringifyElement(array, i) ==
    IF i \in 1..Len(array) THEN <<ValueToken(array[i])>> ELSE <<Token("undefined")>>

\* JSON.stringify(array, null, 2)
RECURSIVE stringifyFrom(_, _)
stringifyFrom(array, i) ==
    IF i > Len(array) THEN <<>>
    ELSE (IF i > 1 THEN <<Token(",")>> ELSE <<>>)
         \o <<ValueToken(array[i])>> \o stringifyFrom(array, i + 1)
stringify(array) == <<Token("[")>> \o stringifyFrom(array, 1) \o <<Token("]")>>

\* build(): what the loop over result[0 .. length - 2] appends to json_out.
RECURSIVE AllButLast(_, _)
AllButLast(array, indx) ==
    IF indx >= Len(array) THEN <<>>
    ELSE stringifyElement(array, indx) \o <<Token(",")>> \o AllButLast(array, indx + 1)

\* build(): the three writes of the call graph, in one text.
CallGraphText(array) ==
    <<Token("[")>> \o AllButLast(array, 1)
    \o stringifyElement(array, Len(array)) \o <<Token("]")>>

\* The name of the call-graph file, and of the file of the projection.
OutputName(output) == output.dir \o output.base \o ".json"
matchRegex(output) == output.dir # "" /\ output.json
EdgesName(output, analyzertype) ==
    output.dir \o "edges-" \o (IF analyzertype = "" THEN "undefined" ELSE analyzertype)
    \o ".json"

File(name, text) == [file |-> name, text |-> text]

\* build(), from the call graph on: the projection and its file, then, for
\* args.cg, the rendered edges and their file.  An exception of funcname
\* leaves build() without a result and without the second file.
build ==
    /\ pc = "callgraph"
    /\ LET list == iter(edges)
           projected == Projection(args.strategy, args.analyzertype, list)
           edgesFile == IF args.output.base # "" /\ matchRegex(args.output)
                        THEN <<File(EdgesName(args.output, args.analyzertype),
                                    stringify(projected))>>
                        ELSE <<>>
           rendered == [i \in 1..Len(list) |->
                           buildBinding(calleeVertex(list[i].call), TargetVertex(list[i]))]
           threw == /\ args.cg
                    /\ \E i \in 1..Len(rendered) :
                          TypeError \in {rendered[i].source.label, rendered[i].target.label}
       IN  /\ edgesOfFunctionsCalled' = projected
           /\ result' = IF threw THEN [threw |-> TRUE, edges |-> {}, returned |-> <<>>]
                        ELSE IF args.cg
                        THEN [threw |-> FALSE,
                              edges |-> {rendered[i] : i \in 1..Len(rendered)},
                              returned |-> rendered]
                        ELSE [threw |-> FALSE, edges |-> {}, returned |-> <<>>]
           /\ written' = IF args.cg /\ ~threw /\ args.output.base # ""
                         THEN edgesFile \o <<File(OutputName(args.output),
                                                  CallGraphText(rendered))>>
                         ELSE edgesFile
    /\ pc' = "done"
    /\ UNCHANGED <<ast, decoration, scope, fg, pseudoCalls, edges, setup, exitCode, stderr>>

----------------------------------------------------------------------------
(* The runs.                                                               *)

\* this.args when no option is given; `output` is the name in args.output[0],
\* split into its directory, its name and whether ".json" ends it.
NoOutput == [dir |-> "", base |-> "", json |-> FALSE]
DefaultArgs == [strategy |-> "", analyzertype |-> "", cg |-> TRUE, output |-> NoOutput]

\* The paths of the files of a collection, in order.
FilesOf(tree) ==
    LET progs == SelectSeq([n \in 1..Len(tree) |-> n], LAMBDA n : tree[n].type = "Program")
    IN  [i \in 1..Len(progs) |-> <<tree[progs[i]].file>>]

\* What a run leaves to compare with another run: the registries, every
\* entry with its file, its place in the file and its type, and the output.
FunctionEntry(f) ==
    [file |-> ast[ProgramOf(f)].file, at |-> f - ProgramOf(f), type |-> ast[f].type,
     label |-> funcname(f), enclosingFile |-> attr[f].enclosingFile]
CallEntry(c) ==
    [file |-> ast[ProgramOf(c)].file, at |-> c - ProgramOf(c), type |-> ast[c].type,
     label |-> "", enclosingFile |-> attr[c].enclosingFile]
Outcome ==
    [done |-> TRUE,
     files |-> files,
     functions |-> [i \in 1..Len(functions) |-> FunctionEntry(functions[i])],
     calls |-> [i \in 1..Len(calls) |-> CallEntry(calls[i])],
     warnings |-> warnings,
     result |-> result,
     edgesOfFunctionsCalled |-> edgesOfFunctionsCalled]
NoRun ==
    [done |-> FALSE, files |-> <<>>, functions |-> <<>>, calls |-> <<>>, warnings |-> <<>>,
     result |-> [threw |-> FALSE, edges |-> {}, returned |-> <<>>],
     edgesOfFunctionsCalled |-> <<>>]

\* The tool at position `at`, on input files that parse to `tree`, under a
\* configuration: the options and the filter rules.
InitAt(trees, configs, at) ==
    /\ ast \in trees
    /\ \E c \in configs :
          /\ args = c.args
          /\ filter = c.filter
          /\ files = IF c.files = <<>> THEN FilesOf(ast) ELSE c.files
    /\ id = [n \in 1..Len(ast) |-> ParsedId(ast, n)]
    /\ attr = [n \in 1..Len(ast) |-> NoAttr]
    /\ functions = <<>>
    /\ calls = <<>>
    /\ enclosingFunction = 0
    /\ enclosingFile = ""
    /\ anonCounters = [n \in 0..Len(ast) |-> 0]
    /\ warnings = <<>>
    /\ work = <<VisitItem(1, 0, "")>>
    /\ scope = [n \in 1..Len(ast) |-> 0]
    /\ fg = {}
    /\ pseudoCalls = <<>>
    /\ edges = {}
    /\ result = [threw |-> FALSE, edges |-> {}, returned |-> <<>>]
    /\ edgesOfFunctionsCalled = <<>>
    /\ written = <<>>
    /\ exitCode = <<>>
    /\ stderr = <<>>
    /\ previous = NoRun
    /\ pc = at

\* A run of build(), after setFiles, setFilter and setArgs.
InitRun(trees, configs) == InitAt(trees, configs, "start")

DefaultConfig == [args |-> DefaultArgs, filter |-> <<>>, files |-> <<>>]

InitOn(trees) == InitRun(trees, {DefaultConfig})

Next ==
    \/ configure
    \/ Visit
    \/ LeaveFunction
    \/ addBindings
    \/ addNativeFlowEdges
    \/ addIntraproceduralFlowGraphEdges
    \/ addStepFlowEdges
    \/ addInterproceduralFlowEdges
    \/ extractCG
    \/ build

\* The tool is run once more, on the sources `tree` and the file list fs,
\* with the options of the run before, whose outcome is kept.
runAgain(tree, fs) ==
    /\ pc = "done"
    /\ ~previous.done
    /\ previous' = Outcome
    /\ ast' = tree
    /\ files' = fs
    /\ id' = [n \in 1..Len(tree) |-> ParsedId(tree, n)]
    /\ attr' = [n \in 1..Len(tree) |-> NoAttr]
    /\ functions' = <<>>
    /\ calls' = <<>>
    /\ enclosingFunction' = 0
    /\ enclosingFile' = ""
    /\ anonCounters' = [n \in 0..Len(tree) |-> 0]
    /\ warnings' = <<>>
    /\ work' = <<VisitItem(1, 0, "")>>
    /\ scope' = [n \in 1..Len(tree) |-> 0]
    /\ fg' = {}
    /\ pseudoCalls' = <<>>
    /\ edges' = {}
    /\ result' = [threw |-> FALSE, edges |-> {}, returned |-> <<>>]
    /\ edgesOfFunctionsCalled' = <<>>
    /\ written' = <<>>
    /\ exitCode' = <<>>
    /\ stderr' = <<>>
    /\ pc' = "start"
    /\ UNCHANGED <<args, filter>>

----------------------------------------------------------------------------
(* The inputs: bounded families of parsed programs.                        *)

\* A site is one statement that holds a function: the syntactic context
\* (ctx) of the function and the form of the function.  The statements of
\* `body` become the body of that function.
FormFn(form, body) ==
    IF form = "named" THEN Fn("FunctionExpression", "n", <<>>, body)
    ELSE IF form = "arrow" THEN Fn("ArrowFunctionExpression", "", <<>>, body)
    ELSE Fn("FunctionExpression", "", <<>>, body)

SiteStmt(site, body) ==
    LET f == FormFn(site.form, body)
    IN  CASE site.ctx = "decl" -> FnDecl("d", <<>>, body)                       \* function d(){}
          [] site.ctx = "var" -> VarStmt("x", f)                                 \* var x = f
          [] site.ctx = "assign" -> AssignStmt(IdentExpr("x"), f)                \* x = f
          [] site.ctx = "member" -> AssignStmt(Member("exports", "x"), f)        \* exports.x = f
          [] site.ctx = "key" -> ObjStmt(IdentExpr("k"), FALSE, f)               \* ({k: f})
          [] site.ctx = "litkey" -> ObjStmt(LitExpr("a-b"), FALSE, f)            \* ({"a-b": f})
          [] site.ctx = "strkey" -> ObjStmt(LitExpr("s"), FALSE, f)              \* ({"s": f})
          [] site.ctx = "computed" -> ObjStmt(IdentExpr("e"), TRUE, f)           \* ({[e]: f})
          [] site.ctx = "method" -> ClassStmt(IdentExpr("m"), FALSE, <<>>, body) \* class A { m(){} }
          [] site.ctx = "litmethod" -> ClassStmt(LitExpr("s"), FALSE, <<>>, body)    \* class A { "s"(){} }
          [] site.ctx = "computedmethod" -> ClassStmt(IdentExpr("e"), TRUE, <<>>, body) \* class A { [e](){} }
          [] site.ctx = "arg" -> ExprStmt(Call("CallExpression", IdentExpr("g"), <<f>>))     \* g(f)
          [] site.ctx = "arg2" ->                                                \* g(1, f, () => {})
               ExprStmt(Call("CallExpression", IdentExpr("g"),
                   <<LitExpr("1"), f, Fn("ArrowFunctionExpression", "", <<>>, <<>>)>>))
          [] site.ctx = "newarg" -> ExprStmt(Call("NewExpression", IdentExpr("G"), <<f>>))   \* new G(f)
          [] site.ctx = "memberarg" -> ExprStmt(Call("CallExpression", Member("o", "m"), <<f>>)) \* o.m(f)
          [] site.ctx = "callee" -> ExprStmt(Call("CallExpression", f, <<>>))    \* (f)()
          [] site.ctx = "timer" ->                                               \* setTimeout(f, 10)
               ExprStmt(Call("CallExpression", IdentExpr("setTimeout"), <<f, LitExpr("10")>>))
          [] site.ctx \in {"forEach", "then", "indexOf"} ->                      \* o.forEach(f)
               ExprStmt(Call("CallExpression", Member("o", site.ctx), <<f>>))

\* The forests of k sites: a site's function holds j of them, the rest follow.
RECURSIVE Forests(_, _)
Forests(sites, k) ==
    IF k = 0 THEN {<<>>}
    ELSE UNION {UNION {{<<SiteStmt(s, inner)>> \o rest :
                            inner \in Forests(sites, j), rest \in Forests(sites, k - 1 - j)} :
                       j \in 0..(k - 1)} : s \in sites}

Files(sites, n) ==
    {Collection(<<Program("m.js", stmts)>>) : stmts \in UNION {Forests(sites, k) : k \in 1..n}}

Forms == {"fe", "named", "arrow"}
Sites(ctxs, forms) == {[ctx |-> c, form |-> f] : c \in ctxs, f \in forms}

\* The number of sites of a program.
MaxSites == 2

\* Anonymous functions and callbacks: C3, C4, C7.
CallbackSites ==
    Sites({"arg"}, Forms) \cup Sites({"callee"}, {"fe", "arrow"})
    \cup Sites({"arg2", "newarg", "decl", "var", "computed"}, {"fe"})
    \cup Sites({"memberarg"}, {"arrow"})
InitCallbacks == InitOn(Files(CallbackSites, MaxSites))
SpecCallbacks == InitCallbacks /\ [][Next]_vars

\* Names from assignments, declarators and declarations: C5, C6.
AssignSites ==
    Sites({"var", "assign"}, Forms) \cup Sites({"member"}, {"fe", "arrow"})
    \cup Sites({"key", "arg"}, {"named"}) \cup Sites({"decl"}, {"fe"})
InitAssign == InitOn(Files(AssignSites, MaxSites))
SpecAssign == InitAssign /\ [][Next]_vars

\* Object-literal properties and class methods: C8, C9.
KeySites ==
    Sites({"key"}, Forms) \cup Sites({"computed", "litkey"}, {"fe", "arrow"})
    \cup Sites({"strkey", "method", "litmethod", "computedmethod"}, {"fe"})
InitKeys == InitOn(Files(KeySites, MaxSites))
SpecKeys == InitKeys /\ [][Next]_vars

\* Step calls: C1, C2.  `a` is bound by a declaration or by a var with a
\* function; `b` is declared; the arguments of Step are a, b, a function
\* literal or a number.
BindA(form) ==
    IF form = "decl" THEN FnDecl("a", <<>>, <<>>)
    ELSE VarStmt("a", FormFn(form, <<>>))

StepArg(x) ==
    IF x = "a" THEN IdentExpr("a")
    ELSE IF x = "b" THEN IdentExpr("b")
    ELSE IF x = "fe" THEN FormFn("fe", <<>>)
    ELSE LitExpr("1")

StepStmt(steps) ==
    ExprStmt(Call("CallExpression", IdentExpr("Step"), [i \in 1..Len(steps) |-> StepArg(steps[i])]))

\* top: everything at top level.  inner: everything in function outer.
\* shadow: `a` bound by a var at top level and declared again in outer.
StepProgram(layout, form, steps) ==
    LET stmts == <<BindA(form), FnDecl("b", <<>>, <<>>), StepStmt(steps)>>
    IN  IF layout = "top" THEN stmts
        ELSE IF layout = "inner" THEN <<FnDecl("outer", <<>>, stmts)>>
        ELSE <<VarStmt("a", FormFn(form, <<>>)),
               FnDecl("outer", <<>>,
                      <<FnDecl("a", <<>>, <<>>), FnDecl("b", <<>>, <<>>), StepStmt(steps)>>)>>

\* The number of arguments of a Step call.
MaxStepArgs == 3

StepLayouts ==
    {[layout |-> l, form |-> f] : l \in {"top", "inner"}, f \in {"decl", "arrow", "named"}}
    \cup {[layout |-> "shadow", form |-> "arrow"]}
StepPrograms ==
    {Collection(<<Program("m.js", StepProgram(l.layout, l.form, steps))>>) :
        l \in StepLayouts, steps \in SeqsUpTo({"a", "b", "fe", "lit"}, MaxStepArgs)}
InitStep == InitOn(StepPrograms)
SpecStep == InitStep /\ [][Next]_vars

\* Step calls under DEMAND, with the static projection: C17.
StaticConfig ==
    [args |-> [DefaultArgs EXCEPT !.strategy = "DEMAND", !.analyzertype = "static"],
     filter |-> <<>>, files |-> <<>>]
InitStepStatic == InitRun(StepPrograms, {StaticConfig})
SpecStepStatic == InitStepStatic /\ [][Next]_vars

\* Calls of natives with callbacks, under DEMAND: C11, C12, C18.
MaxNativeSites == 2

NativeSites ==
    Sites({"timer", "forEach"}, {"fe", "arrow"}) \cup Sites({"then"}, {"named"})
    \cup Sites({"indexOf", "decl"}, {"fe"})
NativeConfigs ==
    {[args |-> [DefaultArgs EXCEPT !.strategy = "DEMAND", !.analyzertype = t],
      filter |-> <<>>, files |-> <<>>] : t \in {"nativecalls", "static"}}
InitNative == InitRun(Files(NativeSites, MaxNativeSites), NativeConfigs)
SpecNative == InitNative /\ [][Next]_vars

\* Functions that take, call and return functions, under every strategy:
\* C13, C14.
StrategyStmts ==
    LET call(callee, arguments) == ExprStmt(Call("CallExpression", callee, arguments))
        callP == call(IdentExpr("p"), <<>>)
    IN  {FnDecl("k", <<"p">>, <<callP>>),                              \* function k(p){ p(); }
         call(IdentExpr("k"), <<Fn("FunctionExpression", "g", <<>>, <<>>)>>),  \* k(function g(){})
         call(Fn("FunctionExpression", "", <<"p">>, <<callP>>),        \* (function(p){ p(); })(() => {})
              <<Fn("ArrowFunctionExpression", "", <<>>, <<>>)>>),
         call(Call("CallExpression",                                  \* (function(){ return function h(){}; }).call()()
                   MemberOf(Fn("FunctionExpression", "", <<>>,
                               <<ReturnStmt(Fn("FunctionExpression", "h", <<>>, <<>>))>>),
                            "call"),
                   <<>>), <<>>),
         FnDecl("r", <<"p">>,                                          \* function r(p){ r(p); return p; }
                <<call(IdentExpr("r"), <<IdentExpr("p")>>), ReturnStmt(IdentExpr("p"))>>),
         call(Call("CallExpression", IdentExpr("r"),                   \* r(function(){})()
                   <<Fn("FunctionExpression", "", <<>>, <<>>)>>), <<>>),
         call(IdentExpr("k"), <<IdentExpr("k")>>),                     \* k(k)
         AssignStmt(Member("o", "m"), IdentExpr("k")),                 \* o.m = k
         call(Member("o", "m"), <<IdentExpr("r")>>)}                   \* o.m(r)

\* The number of statements of a program.
MaxStmts == 2

StrategyPrograms ==
    {Collection(<<Program("m.js", stmts)>>) :
        stmts \in UNION {[1..n -> StrategyStmts] : n \in 1..MaxStmts}}
StrategyConfigs ==
    {[args |-> [DefaultArgs EXCEPT !.strategy = s], filter |-> <<>>, files |-> <<>>] :
        s \in {"NONE", "ONESHOT", "DEMAND"}}
InitStrategy == InitRun(StrategyPrograms, StrategyConfigs)
SpecStrategy == InitStrategy /\ [][Next]_vars

\* The options of a run: C15, C16, C19.  One-shot closures, calls of natives
\* and declarations, under every strategy name and every projection, with
\* --cg and --output out/cg.json.
OptionSites ==
    Sites({"callee", "timer", "decl"}, {"fe"}) \cup Sites({"forEach"}, {"arrow"})
StrategyNames == {"", "NONE", "ONESHOT", "DEMAND", "FULL", "BOGUS"}
AnalyzerTypes == {"static", "nativecalls", "acg"}
OptionConfigs ==
    {[args |-> [strategy |-> s, analyzertype |-> t, cg |-> TRUE,
                output |-> [dir |-> "out/", base |-> "cg", json |-> TRUE]],
      filter |-> <<>>, files |-> <<>>] : s \in StrategyNames, t \in AnalyzerTypes}
InitOptions == InitRun(Files(OptionSites, MaxSites), OptionConfigs)
SpecOptions == InitOptions /\ [][Next]_vars

\* The file filter: C20.  Three files that hold a function each, given in
\* two orders, and up to MaxRules rules.
Chars(str) ==
    CASE str = "a.js" -> <<"a", ".", "j", "s">>
      [] str = "b.js" -> <<"b", ".", "j", "s">>
      [] str = "l/a.js" -> <<"l", "/", "a", ".", "j", "s">>
      [] str = "+a.js" -> <<"+", "a", ".", "j", "s">>
      [] str = "-a.js" -> <<"-", "a", ".", "j", "s">>
      [] str = "-.js" -> <<"-", ".", "j", "s">>
      [] str = "+l/" -> <<"+", "l", "/">>
      [] str = "- b.js " -> <<"-", " ", "b", ".", "j", "s", " ">>
      [] str = "+b" -> <<"+", "b">>

FilterFileLists ==
    {<<Chars("a.js"), Chars("b.js"), Chars("l/a.js")>>, <<Chars("l/a.js"), Chars("a.js")>>}
FilterRules == {Chars(r) : r \in {"+a.js", "-a.js", "-.js", "+l/", "- b.js ", "+b"}}

\* The number of rules of a filter.
MaxRules == 3

FilterConfigs(fl) ==
    {[args |-> DefaultArgs, filter |-> rules, files |-> fl] :
        rules \in SeqsUpTo(FilterRules, MaxRules)}
InitFilter ==
    \E fl \in FilterFileLists :
        InitRun({Collection([i \in 1..Len(fl) |->
                               Program(PathString(fl[i]), <<FnDecl("d", <<>>, <<>>)>>)])},
                FilterConfigs(fl))
SpecFilter == InitFilter /\ [][Next]_vars

\* Several files: C10.  Up to MaxFiles files share up to MaxSites sites.
RECURSIVE FileBodies(_, _, _)
FileBodies(sites, nfiles, budget) ==
    IF nfiles = 0 THEN {<<>>}
    ELSE UNION {{<<stmts>> \o rest :
                    stmts \in Forests(sites, k), rest \in FileBodies(sites, nfiles - 1, budget - k)} :
                k \in 0..budget}

FileName(i) == "f" \o ToString(i) \o ".js"

\* The number of files of a collection.
MaxFiles == 2

Collections(sites, n) ==
    {Collection([i \in 1..Len(bodies) |-> Program(FileName(i), bodies[i])]) :
        bodies \in UNION {FileBodies(sites, nfiles, n) : nfiles \in 1..MaxFiles}}

FileSites ==
    Sites({"decl", "callee", "key"}, {"fe"}) \cup Sites({"newarg"}, {"arrow"})
InitFiles == InitOn(Collections(FileSites, MaxSites))
SpecFiles == InitFiles /\ [][Next]_vars

----------------------------------------------------------------------------
(* What the claims speak of, read from the parsed tree.                    *)

\* The name the source gives the function itself (""), as parsed.
DeclaredName(f) == ParsedId(ast, f).name
HasDeclaredName(f) == ParsedId(ast, f).kind = "node"

IsAssignmentTo(f, leftTypes) ==
    /\ TypeOf(ast[f].parent) = "AssignmentExpression" /\ ast[f].prop = "right"
    /\ TypeOf(Child(ast[f].parent, "left")) \in leftTypes
IsInitialiser(f) ==
    /\ TypeOf(ast[f].parent) = "VariableDeclarator" /\ ast[f].prop = "init"
    /\ TypeOf(Child(ast[f].parent, "id")) = "Identifier"

\* x of `x = f` and `exports.x = f`, and of `var x = f`.
AssignedName(f) ==
    IF IsInitialiser(f) THEN ast[Child(ast[f].parent, "id")].name
    ELSE LET left == Child(ast[f].parent, "left")
         IN  IF ast[left].type = "Identifier" THEN ast[left].name
             ELSE ast[Child(left, "property")].name

IsCallArgument(f) == ast[f].prop = "arguments" /\ TypeOf(ast[f].parent) \in CallTypes

\* The value of a non-computed object-literal property / of a class method.
IsPropertyValue(f) == ast[f].prop = "value" /\ TypeOf(ast[f].parent) = "Property"
IsMethodValue(f) == ast[f].prop = "value" /\ TypeOf(ast[f].parent) = "MethodDefinition"
KeyOf(f) == Child(ast[f].parent, "key")

AnonLabel(f) ==
    (IF EnclosingFn(f) = 0 THEN "global" ELSE funcname(EnclosingFn(f)))
    \o ":anon[" \o ToString(attr[f].anonIndex) \o "]"

\* No declared name, no name from a parent assignment or declarator.
Nameless(f) == id[f].kind = "null" /\ ~hasParentName(attr[f].parent)
FreeAnonymous(f) == Nameless(f) /\ ~IsCallArgument(f)
FreeIn(F) == {f \in FunctionNodes : FreeAnonymous(f) /\ EnclosingFn(f) = F}

\* The callee of a call, as text: an identifier or a member chain.
RECURSIVE CalleeText(_)
CalleeText(c) ==
    IF ast[c].type = "Identifier" THEN ast[c].name
    ELSE CalleeText(Child(c, "object")) \o "." \o ast[Child(c, "property")].name
HasNamedCallee(call) == TypeOf(Child(call, "callee")) \in {"Identifier", "MemberExpression"}

\* The function-typed arguments of a call, and the callback label of one.
FunctionArgs(call) == {a \in FunctionNodes : ast[a].parent = call /\ ast[a].prop = "arguments"}
CallbackLabel(f) ==
    LET call == ast[f].parent
        C == CalleeText(Child(call, "callee"))
        i == Cardinality({a \in FunctionArgs(call) : a <= f})
    IN  IF Cardinality(FunctionArgs(call)) = 1 THEN "clb(" \o C \o ")"
        ELSE "clb(" \o C \o ")[" \o ToString(i) \o "]"

----------------------------------------------------------------------------
(* C3, C4, C7: callbacks and anonymous indices.                            *)

\* C3: a function without a declared or parent-supplied name that is an
\* argument of a call or `new` with an identifier or member-chain callee C is
\* labelled clb(C) when it is the only function-typed argument, and clb(C)[i]
\* otherwise, i being its 1-based position among the function-typed arguments.
C3_CallbackIsLabelledByCallee ==
    Decorated =>
        \A f \in FunctionNodes :
            (Nameless(f) /\ IsCallArgument(f) /\ HasNamedCallee(ast[f].parent))
            => funcname(f) = CallbackLabel(f)

\* C4: for every enclosing function F and for the global level, the indices
\* of the free-anonymous functions directly enclosed by F are 1..k in
\* pre-order, and F's counter has counted nothing else: callbacks consume no
\* index.
C4_FreeAnonymousIndicesAreContiguous ==
    Decorated =>
        \A F \in FunctionNodes \cup {0} :
            /\ \A f \in FreeIn(F) :
                  attr[f].anonIndex = Cardinality({g \in FreeIn(F) : g <= f})
            /\ anonCounters[F] = Cardinality(FreeIn(F))

\* C7: a free-anonymous function has an index i >= 1 and its label is the
\* label of its enclosing function (`global` when there is none), followed by
\* `:anon[i]`; rendering the label terminates with a string at any depth.
C7_AnonymousLabelChainsEnclosingLabel ==
    Decorated =>
        \A f \in FunctionNodes :
            FreeAnonymous(f) =>
                /\ attr[f].anonIndex >= 1
                /\ attr[f].enclosingFunction = EnclosingFn(f)
                /\ funcname(f) = AnonLabel(f)
                /\ funcname(f) \notin {TypeError, Undefined, "anon"}

\* C7, witness: a decorated program with a top-level free-anonymous function
\* labelled global:anon[1] and a free-anonymous function in a function,
\* labelled global:anon[1]:anon[1] or d:anon[1].
C7_Witness ==
    /\ Decorated
    /\ \E f, g \in FunctionNodes :
          /\ FreeAnonymous(f) /\ EnclosingFn(f) = 0 /\ funcname(f) = "global:anon[1]"
          /\ FreeAnonymous(g) /\ EnclosingFn(g) # 0
          /\ funcname(g) \in {"global:anon[1]:anon[1]", "d:anon[1]"}

----------------------------------------------------------------------------
(* C5: names from assignments and declarators.                             *)

AnonymousAsParsed(f) == ast[f].type # "FunctionDeclaration" /\ ~HasDeclaredName(f)

\* C5 as stated: an anonymous function expression or arrow function that is
\* the right-hand side of an assignment to an identifier or to a member, or
\* the initialiser of a declarator, is labelled x and has no anonymous index.
C5_AssignedFunctionIsNamed ==
    Decorated =>
        \A f \in FunctionNodes :
            (AnonymousAsParsed(f)
             /\ (IsAssignmentTo(f, {"Identifier", "MemberExpression"}) \/ IsInitialiser(f)))
            => (funcname(f) = AssignedName(f) /\ attr[f].anonIndex = 0)

\* C5, amended: an anonymous function expression or arrow function that is
\* the right-hand side of an assignment to an identifier, or the initialiser
\* of `var/let/const x`, is labelled x and has no anonymous index; as the
\* right-hand side of an assignment to a member (exports.x = ...) it takes no
\* name from the assignment: it gets an anonymous index and the label
\* <enclosing label>:anon[i].
C5_IdentifierAssignedFunctionIsNamed ==
    Decorated =>
        \A f \in FunctionNodes :
            AnonymousAsParsed(f) =>
                /\ (IsAssignmentTo(f, {"Identifier"}) \/ IsInitialiser(f))
                    => (funcname(f) = AssignedName(f) /\ attr[f].anonIndex = 0)
                /\ IsAssignmentTo(f, {"MemberExpression"})
                    => (attr[f].anonIndex >= 1 /\ funcname(f) = AnonLabel(f))

\* C5, witness: a decorated program with `x = () => {}` labelled x and
\* `exports.x = function(){}` labelled by its anonymous index.
C5_Witness ==
    /\ Decorated
    /\ \E f \in FunctionNodes :
          /\ ast[f].type = "ArrowFunctionExpression"
          /\ IsAssignmentTo(f, {"Identifier"}) /\ funcname(f) = "x"
    /\ \E f \in FunctionNodes :
          /\ IsAssignmentTo(f, {"MemberExpression"}) /\ funcname(f) = "global:anon[1]"

----------------------------------------------------------------------------
(* C6: declared names.                                                     *)

NamedByKey(f) ==
    /\ ast[f].type = "FunctionExpression" /\ IsPropertyValue(f)
    /\ ~ast[ast[f].parent].computed
    /\ ast[KeyOf(f)].type \in {"Identifier", "Literal"}

----------------------------------------------------------------------------
(* C8, C9: functions under object-literal and class keys.                  *)

KeyedProperty(f) ==
    /\ IsPropertyValue(f) /\ ~ast[ast[f].parent].computed
    /\ ast[KeyOf(f)].type \in {"Identifier", "Literal"}
KeyedMethod(f) ==
    /\ IsMethodValue(f) /\ ~ast[ast[f].parent].computed
    /\ ast[KeyOf(f)].type = "Identifier"
HasIdOfKey(f) ==
    /\ id[f].kind \in {"node", "synth"} /\ id[f].name = ast[KeyOf(f)].name
    /\ funcname(f) = ast[KeyOf(f)].name
    /\ attr[f].anonIndex = 0
StaysAnonymous(f) ==
    /\ id[f].kind = "null"
    /\ attr[f].anonIndex >= 1 /\ funcname(f) = AnonLabel(f)

\* The visit of the function (Property) or of its MethodDefinition warned.
Warned(f) ==
    \E i \in 1..Len(warnings) :
        warnings[i].at = (IF IsMethodValue(f) THEN ast[f].parent ELSE f)

\* C8 as stated: every function expression or arrow function that is the
\* value of a non-computed property with an identifier or literal key, and
\* every class method with a non-computed identifier key, gets an id equal to
\* the key, is labelled by the key and has no anonymous index.
C8_KeyedFunctionGetsKeyAsId ==
    Decorated =>
        \A f \in FunctionNodes :
            ((ast[f].type # "FunctionDeclaration" /\ KeyedProperty(f)) \/ KeyedMethod(f))
            => HasIdOfKey(f)

\* C8, amended: every function expression (not arrow function) that is the
\* value of a non-computed object-literal property with an identifier or
\* literal key, and every class method with a non-computed identifier key,
\* gets an id equal to the key, is labelled by the key and has no anonymous
\* index; an arrow function as property value gets no id and is labelled by
\* its anonymous index.
C8_KeyedFunctionExpressionGetsKeyAsId ==
    Decorated =>
        \A f \in FunctionNodes :
            /\ ((ast[f].type = "FunctionExpression" /\ KeyedProperty(f)) \/ KeyedMethod(f))
               => HasIdOfKey(f)
            /\ (ast[f].type = "ArrowFunctionExpression" /\ KeyedProperty(f))
               => StaysAnonymous(f)

\* C8, witness: a decorated program with a function expression under a
\* literal key and a class method, each labelled by its key.
C8_Witness ==
    /\ Decorated
    /\ \E f \in FunctionNodes :
          KeyedProperty(f) /\ ast[KeyOf(f)].type = "Literal" /\ funcname(f) = "a-b"
    /\ \E f \in FunctionNodes : KeyedMethod(f) /\ funcname(f) = "m"

\* The names of the model's programs that are valid identifiers.
ValidIdentifiers == {"s", "k", "m", "e", "x", "n", "d", "g", "o", "G", "A", "exports", "Step",
                     "a", "b", "outer"}

UnderComputedKey(f) ==
    (IsPropertyValue(f) \/ IsMethodValue(f)) /\ ast[ast[f].parent].computed
UnderLiteralKey(f) ==
    /\ (IsPropertyValue(f) \/ IsMethodValue(f)) /\ ~ast[ast[f].parent].computed
    /\ ast[KeyOf(f)].type = "Literal"

\* C9 as stated: a function under a computed key or under a literal key that
\* is not a valid identifier produces a warning and remains anonymous.
C9_UnnameableKeyWarnsAndStaysAnonymous ==
    Decorated =>
        \A f \in FunctionNodes :
            (UnderComputedKey(f)
             \/ (UnderLiteralKey(f) /\ ast[KeyOf(f)].name \notin ValidIdentifiers))
            => (Warned(f) /\ StaysAnonymous(f))

\* C9, amended: a function expression under a computed object-literal key,
\* and a class method under a computed key or under any literal key, produces
\* a warning and remains anonymous (no id, labelled by its anonymous index);
\* an arrow function under a computed key remains anonymous without a
\* warning; a function expression under a literal object-literal key, valid
\* identifier or not, is named by the key without a warning; and nothing else
\* warns.
C9_WarnsAndStaysAnonymous ==
    Decorated =>
        /\ \A f \in FunctionNodes :
              /\ (UnderComputedKey(f) /\ ~(IsPropertyValue(f) /\ ast[f].type = "ArrowFunctionExpression"))
                 => (Warned(f) /\ StaysAnonymous(f))
              /\ (UnderLiteralKey(f) /\ IsMethodValue(f)) => (Warned(f) /\ StaysAnonymous(f))
              /\ (UnderComputedKey(f) /\ IsPropertyValue(f) /\ ast[f].type = "ArrowFunctionExpression")
                 => (~Warned(f) /\ StaysAnonymous(f))
              /\ (UnderLiteralKey(f) /\ IsPropertyValue(f) /\ ast[f].type = "FunctionExpression")
                 => (~Warned(f) /\ HasIdOfKey(f))
        /\ Len(warnings) =
               Cardinality({f \in FunctionNodes :
                   \/ UnderComputedKey(f) /\ ~(IsPropertyValue(f) /\ ast[f].type = "ArrowFunctionExpression")
                   \/ UnderLiteralKey(f) /\ IsMethodValue(f)})

\* C9, witness: a decorated program with a function expression under a
\* computed key and a method under a literal key, both warned about and both
\* labelled by their anonymous index.
C9_Witness ==
    /\ Decorated
    /\ \E f \in FunctionNodes :
          UnderComputedKey(f) /\ IsPropertyValue(f) /\ Warned(f) /\ funcname(f) = "global:anon[1]"
    /\ \E f \in FunctionNodes :
          UnderLiteralKey(f) /\ IsMethodValue(f) /\ Warned(f) /\ funcname(f) = "global:anon[2]"

----------------------------------------------------------------------------
(* C1, C2: the edges of a Step call.                                       *)

\* The function an argument of Step stands for: the function literal itself,
\* or the function the identifier is bound to by a declaration or by a
\* declarator initialised with a function (0: none).
FunctionOf(arg) ==
    IF IsFunction(arg) THEN arg
    ELSE IF ast[arg].type # "Identifier" \/ Resolve(arg) = 0 THEN 0
    ELSE LET holder == ast[Resolve(arg)].parent
         IN  IF ast[holder].type = "FunctionDeclaration" THEN holder
             ELSE IF ast[holder].type = "VariableDeclarator" /\ IsFunction(Child(holder, "init"))
             THEN Child(holder, "init")
             ELSE 0

IsLiteralOrDeclared(arg) ==
    IsFunction(arg) \/ (FunctionOf(arg) # 0 /\ ast[FunctionOf(arg)].type = "FunctionDeclaration")

\* The label of the function that holds node n.
EnclosingLabel(n) == IF EnclosingFn(n) = 0 THEN "global" ELSE funcname(EnclosingFn(n))

\* The extracted call graph holds an edge from call-site c to function f whose
\* source is rendered with the label `label`.
HasEdge(c, f, label) ==
    /\ [call |-> c, fn |-> f, native |-> ""] \in edges
    /\ addNode(calleeVertex(c)).label = label
    /\ label \notin {TypeError, Undefined}

\* The pseudo call-sites (as call-site handles) of Step call c for its k-th
\* pair of steps.
PseudoCallSites(c, k) ==
    {Len(ast) + j : j \in {i \in 1..Len(pseudoCalls) :
        /\ pseudoCalls[i].call = c
        /\ pseudoCalls[i].loc = ChildList(c, "arguments")[k]
        /\ Cardinality({h \in 1..i : pseudoCalls[h].call = c}) = k}}

\* C1: for every call Step(f_1, ..., f_n), n >= 1, whose arguments are each a
\* function literal or an identifier naming a function declaration in scope,
\* the extracted call graph holds an edge from the Step call-site, labelled
\* with the function enclosing the call (`global` at top level), to f_1 and,
\* for every k in 1..n-1, an edge from a synthesized call-site labelled f_k to
\* f_{k+1}; and build() returns these edges rendered.
C1_StepEdges ==
    pc = "done" =>
        \A c \in NodeIds :
            LET stepArgs == ChildList(c, "arguments")
            IN  (ast[c].type = "CallExpression" /\ isStepCall(c) /\ Len(stepArgs) >= 1
                 /\ \A k \in 1..Len(stepArgs) : IsLiteralOrDeclared(stepArgs[k]))
                =>
                /\ HasEdge(c, FunctionOf(stepArgs[1]), EnclosingLabel(c))
                /\ \A k \in 1..(Len(stepArgs) - 1) :
                      \E p \in PseudoCallSites(c, k) :
                          HasEdge(p, FunctionOf(stepArgs[k + 1]), funcname(FunctionOf(stepArgs[k])))
                /\ ~result.threw
                /\ \E b \in result.edges :
                      /\ b.source.label = EnclosingLabel(c)
                      /\ b.target.label = funcname(FunctionOf(stepArgs[1]))
                /\ \A k \in 1..(Len(stepArgs) - 1) :
                      \E b \in result.edges :
                          /\ b.source.label = funcname(FunctionOf(stepArgs[k]))
                          /\ b.target.label = funcname(FunctionOf(stepArgs[k + 1]))

\* C1, witness: Step(a, b, function(){}) with a and b declared, called in
\* function outer: the call graph returned holds outer -> a, a -> b and
\* b -> outer:anon[1].
C1_Witness ==
    /\ pc = "done"
    /\ \E c \in NodeIds :
          /\ ast[c].type = "CallExpression" /\ isStepCall(c)
          /\ Len(ChildList(c, "arguments")) = 3
          /\ \A k \in 1..3 : IsLiteralOrDeclared(ChildList(c, "arguments")[k])
    /\ \E b1, b2, b3 \in result.edges :
          /\ b1.source.label = "outer" /\ b1.target.label = "a"
          /\ b2.source.label = "a" /\ b2.target.label = "b"
          /\ b3.source.label = "b" /\ b3.target.label = "outer:anon[1]"

\* C2: for every adjacent pair (f_k, f_k+1) of every Step call, f_k being a
\* function literal or an identifier bound to a function (by a declaration or
\* by a variable initialised with a function, at top level or in a function),
\* the enclosingFunction attribute of the pseudo call-site is the function
\* node of f_k, and the source of its edges is rendered as label(f_k).
C2_PseudoCallIsEnclosedByStep ==
    pc \in {"step", "interprocedural", "callgraph", "done"} =>
        \A i \in 1..Len(pseudoCalls) :
            LET fk == FunctionOf(pseudoCalls[i].loc)
            IN  fk # 0 =>
                /\ pseudoCalls[i].enclosingFunction = fk
                /\ addNode(calleeVertex(Len(ast) + i)).label = funcname(fk)

----------------------------------------------------------------------------
(* C10: the registries.                                                    *)

\* The nodes of the collection that satisfy P, in pre-order, the programs in
\* the order of the file list.
PreOrder(P(_)) == SelectSeq([n \in NodeIds |-> n], P)

\* C10: after decoration, the function registry of the root holds every
\* function node of every program exactly once and the call registry every
\* call and `new` site exactly once, both in pre-order with the programs in
\* file-list order.
C10_RegistriesArePreOrder ==
    Decorated =>
        /\ functions = PreOrder(IsFunction)
        /\ calls = PreOrder(IsCall)
        /\ \A n \in NodeIds :
              /\ IsFunction(n) => Cardinality({i \in 1..Len(functions) : functions[i] = n}) = 1
              /\ IsCall(n) => Cardinality({i \in 1..Len(calls) : calls[i] = n}) = 1

\* C10, witness: a decorated collection of two files, each with a function,
\* the second with a `new` site, all registered.
C10_Witness ==
    /\ Decorated
    /\ \E i, j \in 1..Len(functions) :
          /\ i < j
          /\ ast[ProgramOf(functions[i])].file = "f1.js"
          /\ ast[ProgramOf(functions[j])].file = "f2.js"
    /\ \E i \in 1..Len(calls) :
          ast[calls[i]].type = "NewExpression" /\ ast[ProgramOf(calls[i])].file = "f2.js"

----------------------------------------------------------------------------
(* C11, C12: the natives.                                                  *)

\* The names under which the callback-accepting natives of the table are
\* called: the timer registrars, the array iterations, the promise methods.
CallbackNatives == {"setTimeout", "forEach", "then"}

\* The name a call is made under: f(...) or o.f(...).
CalledName(c) ==
    LET callee == Child(c, "callee")
    IN  IF ast[callee].type = "Identifier" THEN ast[callee].name
        ELSE IF ast[callee].type = "MemberExpression" THEN ast[Child(callee, "property")].name
        ELSE ""

\* C11: under DEMAND a function literal passed to a callback-accepting
\* native is a target of that call: the call graph holds the edge from the
\* call-site to the callback.
C11_CallbackIsCalledByNative ==
    (pc = "done" /\ args.strategy = "DEMAND") =>
        \A c \in NodeIds :
            (ast[c].type = "CallExpression" /\ CalledName(c) \in CallbackNatives) =>
                \A f \in FunctionArgs(c) : [call |-> c, fn |-> f, native |-> ""] \in edges

\* The edges of the flow graph that leave a Native vertex.
NativeEdgesOf(G) == {e \in G : e.from.k = "Native"}

\* The reads of a property: o.name
PropertyReads(name) ==
    {n \in NodeIds : /\ ast[n].type = "MemberExpression"
                     /\ ast[n].prop # "left"
                     /\ ast[Child(n, "property")].name = name}

\* C12: addNativeFlowEdges adds exactly one edge for every entry of the
\* table, from the Native vertex of the entry to the Prop vertex of the name
\* it maps to, and nothing else; entries that map to one name, and every
\* read of a property of that name, meet in one Prop vertex.
C12_NativeFlowEdges ==
    pc \notin {"start", "exit", "init", "bindings"} =>
        /\ Cardinality(NativeEdgesOf(fg)) = Len(nativeFlows)
        /\ \A i \in 1..Len(nativeFlows) :
              LET out == {e \in fg : e.from = nativeVertex(nativeFlows[i].native)}
              IN  /\ Cardinality(out) = 1
                  /\ \A e \in out : e.to.k = "Prop" /\ e.to.s = nativeFlows[i].target
        /\ pc = "natives" => fg = NativeEdgesOf(fg)
        /\ \A i, j \in 1..Len(nativeFlows) :
              nativeFlows[i].target = nativeFlows[j].target =>
                  \A e, d \in NativeEdgesOf(fg) :
                      (e.from.s = nativeFlows[i].native /\ d.from.s = nativeFlows[j].native)
                      => e.to = d.to
        /\ pc \notin {"natives"} =>
              \A e \in NativeEdgesOf(fg) :
                  \A n \in PropertyReads(e.to.s) : Edge(e.to, exprVertex(n)) \in fg

\* C12, witness: the natives are in the graph of a program that reads
\* o.indexOf, the name two natives map to.
C12_Witness ==
    /\ pc = "done"
    /\ PropertyReads("indexOf") # {}
    /\ Cardinality({e \in NativeEdgesOf(fg) : e.to = propVertex("indexOf")}) = 2
    /\ \E n \in PropertyReads("indexOf") :
          Edge(propVertex("indexOf"), exprVertex(n)) \in fg

----------------------------------------------------------------------------
(* C13, C14: the strategies.                                               *)

\* The flow graph before the strategy is at work.
IntraproceduralGraph ==
    NativeFlowEdges(nativeFlows) \cup UNION {NodeEdges(nd) : nd \in NodeIds}
    \cup AllStepEdges(StepCalls, Len(ast))

\* The graph DEMAND ends with, from the graph G.
RECURSIVE DemandClosure(_)
DemandClosure(G) ==
    IF DemandEdges(G) \subseteq G THEN G ELSE DemandClosure(G \cup DemandEdges(G))

\* The call graph of the program under a strategy.
EdgesUnder(strategy) ==
    CallGraph(IF builder(strategy) = "pessimistic"
              THEN IntraproceduralGraph \cup PessimisticEdges(noOneShot(strategy))
              ELSE DemandClosure(IntraproceduralGraph))

\* C13: the call graph grows with the strategy: every edge under NONE is an
\* edge under ONESHOT, and every edge under ONESHOT is an edge under DEMAND.
C13_StrategiesAreMonotone ==
    pc = "done" =>
        /\ EdgesUnder("NONE") \subseteq EdgesUnder("ONESHOT")
        /\ EdgesUnder("ONESHOT") \subseteq EdgesUnder("DEMAND")

\* The call-sites: the calls of the program and the pseudo call-sites.
CallSites == {n \in NodeIds : IsCall(n)} \cup {Len(ast) + i : i \in 1..Len(pseudoCalls)}

\* The function reaches the callee slot of the call-site.
Connected(fn, c) == calleeVertex(c) \in Reachable({funcVertex(fn)})

\* The graph is closed under DEMAND, and holds no edge of a call that it
\* does not connect.
Closed ==
    /\ \A fn \in FunctionNodes : \A c \in CallSites :
          Connected(fn, c) => CallEdges(fn, c) \subseteq fg
    /\ \A e \in fg :
          /\ (e.from.k = "Ret" /\ e.to.k = "Res") => Connected(e.from.n, e.to.n)
          /\ (e.from.k = "Arg" /\ e.to.k = "Var") => Connected(ast[e.to.n].parent, e.from.n)

\* C14: DEMAND comes to an end on every program, cyclic graphs included: a
\* round that is not the last adds an edge, out of the finitely many argument
\* and result edges of the functions and call-sites of the program; and the
\* graph it ends with is closed: it holds the argument and result edges of
\* every function and call-site it connects, and of no other pair.
C14_DemandEndsClosed ==
    /\ [][(pc = "step" /\ pc' = "step") =>
             /\ args.strategy = "DEMAND"
             /\ fg \subseteq fg' /\ fg' # fg
             /\ fg' \ fg \subseteq UNION {CallEdges(fn, c) : fn \in FunctionNodes, c \in CallSites}]_vars
    /\ []((pc \in {"interprocedural", "callgraph", "done"} /\ args.strategy = "DEMAND")
             => Closed)

\* C14, witness: DEMAND has ended on a recursive function: the graph has a
\* cycle through the parameter of r, and holds the result edge of the call
\* of r in r.
C14_Witness ==
    /\ pc = "done"
    /\ args.strategy = "DEMAND"
    /\ \E c \in CallSites : \E fn \in FunctionNodes :
          /\ EnclosingFn(c) = fn
          /\ Connected(fn, c)
          /\ Edge(retVertex(fn), resVertex(c)) \in fg
          /\ \E p \in NodeIds :
                /\ ast[p].parent = fn /\ ast[p].prop = "params"
                /\ varVertex(p) \in Reachable({e.to : e \in {d \in fg : d.from = varVertex(p)}})

----------------------------------------------------------------------------
(* C15: the strategy option.                                               *)

\* The run has left the configuration and nothing of a file is parsed or
\* written.
NothingDone ==
    /\ functions = <<>> /\ calls = <<>> /\ fg = {} /\ edges = {}
    /\ \A n \in NodeIds : attr[n] = NoAttr
    /\ edgesOfFunctionsCalled = <<>> /\ written = <<>>
    /\ result = [threw |-> FALSE, edges |-> {}, returned |-> <<>>]

\* C15: an unset strategy is analysed as ONESHOT and FULL as DEMAND, from
\* the very state that DEMAND gives; NONE and ONESHOT add the edges of the
\* pessimistic builder and DEMAND those of the demand-driven one; any other
\* name ends the run with a non-zero exit code, with nothing parsed and
\* nothing written, and the run goes no further.
C15_StrategyResolution ==
    /\ [][pc = "start" =>
            /\ files' = FilteredFiles(files, filter)
            /\ args.strategy = "" => args' = [args EXCEPT !.strategy = "ONESHOT"]
            /\ args.strategy = "FULL" => args' = [args EXCEPT !.strategy = "DEMAND"]
            /\ args.strategy \in {"NONE", "ONESHOT", "DEMAND"} => args' = args
            /\ args.strategy \in Strategies \cup {""} =>
                   /\ pc' = "init" /\ exitCode' = <<>>
                   /\ ast' = astFromFiles(ast, files')
            /\ args.strategy \notin Strategies \cup {""} =>
                   /\ pc' = "exit" /\ ast' = ast
                   /\ Len(exitCode') = 1 /\ exitCode'[1] # 0]_vars
    /\ [][pc = "step" =>
            fg' = fg \cup (IF args.strategy \in {"NONE", "ONESHOT"}
                           THEN PessimisticEdges(args.strategy = "NONE")
                           ELSE DemandEdges(fg))]_vars
    /\ [][pc # "exit"]_vars
    /\ [](pc = "exit" => NothingDone)
    /\ [](pc \notin {"start", "exit"} => args.strategy \in {"NONE", "ONESHOT", "DEMAND"})
    /\ [](pc = "done" => edges = EdgesUnder(args.strategy))

\* FULL has run as DEMAND and has left the static projection of a call
\* graph with edges.
C15_Witness ==
    /\ pc = "done"
    /\ stderr = <<"strategy FULL not implemented yet; using DEMAND instead">>
    /\ args.strategy = "DEMAND"
    /\ edgesOfFunctionsCalled # <<>>
    /\ edgesOfFunctionsCalled = retrieveAllCalledFunctionsStatic(iter(edges))

----------------------------------------------------------------------------
(* C16: the analyzertype option.                                           *)

\* The projection that an analyzertype names.
ProjectionOf(analyzertype, list) ==
    IF analyzertype = "static" THEN retrieveAllCalledFunctionsStatic(list)
    ELSE IF analyzertype = "nativecalls" THEN retrieveAllCalledFunctionsNative(list)
    ELSE retrieveAllCalledFunctionsACG(list)

\* C16: under every strategy, edgesOfFunctionsCalled is the projection that
\* args.analyzertype names, of the call graph of the strategy: the static
\* one, the native-calls one, or one "source-pos -> target-pos" text for
\* each edge.
C16_AnalyzertypeChoosesProjection ==
    (pc = "done" /\ args.analyzertype \in AnalyzerTypes) =>
        edgesOfFunctionsCalled = ProjectionOf(args.analyzertype, iter(edges))

----------------------------------------------------------------------------
(* C17: the static projection.                                             *)

\* The entry the static projection owes to an edge with a function target:
\* the caller is the function that encloses the call-site.
StaticEntryOf(e) ==
    Entry([file |-> CallEnclosingFile(e.call),
           range |-> IF CallEnclosingFunction(e.call) # 0
                     THEN range(CallEnclosingFunction(e.call)) ELSE NullRange],
          [file |-> attr[e.fn].enclosingFile, range |-> range(e.fn)])

\* C17: the static projection holds the entries of the edges with a function
\* target, those of pseudo call-sites among them, and no other: no callee is
\* a native, and a caller has the range of the function that encloses the
\* call-site, or no range at global level.
C17_StaticCallerIsEnclosingFunction ==
    (pc = "done" /\ args.strategy = "DEMAND" /\ args.analyzertype = "static") =>
        {edgesOfFunctionsCalled[i] : i \in 1..Len(edgesOfFunctionsCalled)}
            = {StaticEntryOf(e) : e \in {d \in edges : d.fn # 0}}

----------------------------------------------------------------------------
(* C18: the native-calls projection.                                       *)

\* The entry the native-calls projection owes to a functional argument of a
\* call of a native: the argument is the callee, the function that encloses
\* the call is the caller.
NativeEntryOf(call, func) ==
    Entry([file |-> CallEnclosingFile(call),
           range |-> IF CallEnclosingFunction(call) # 0
                     THEN range(CallEnclosingFunction(call)) ELSE NullRange],
          [file |-> attr[func].enclosingFile, range |-> range(func)])

\* The functional arguments of a call-site: function expressions and arrow
\* functions.
FunctionalArguments(call) ==
    {CallArguments(call)[i] : i \in 1..Len(CallArguments(call))}
        \cap {n \in NodeIds : ast[n].type \in {"FunctionExpression", "ArrowFunctionExpression"}}

\* C18: the native-calls projection holds one entry for each functional
\* argument of each call with an edge to a native, and no other entry.
C18_NativeCallsProjection ==
    (pc = "done" /\ args.strategy = "DEMAND" /\ args.analyzertype = "nativecalls") =>
        /\ {edgesOfFunctionsCalled[i] : i \in 1..Len(edgesOfFunctionsCalled)}
               = UNION {{NativeEntryOf(e.call, f) : f \in FunctionalArguments(e.call)} :
                           e \in {d \in edges : d.fn = 0}}
        /\ \A i, j \in 1..Len(edgesOfFunctionsCalled) :
               edgesOfFunctionsCalled[i] = edgesOfFunctionsCalled[j] => i = j

----------------------------------------------------------------------------
(* C19: the file of the call graph.                                        *)

\* JSON.parse of a text that is to be an array: the brackets, and between
\* them nothing, or values with one comma between two of them.
JSONparse(text) ==
    LET inner == SubSeq(text, 2, Len(text) - 1)
        wellFormed ==
            /\ Len(text) >= 2
            /\ text[1].tok = "[" /\ text[Len(text)].tok = "]"
            /\ inner # <<>> => Len(inner) % 2 = 1
            /\ \A i \in 1..Len(inner) :
                   inner[i].tok = (IF i % 2 = 1 THEN "value" ELSE ",")
    IN  IF wellFormed
        THEN [ok |-> TRUE,
              array |-> [i \in 1..((Len(inner) + 1) \div 2) |-> inner[2 * i - 1].val[1]]]
        ELSE [ok |-> FALSE, array |-> <<>>]

\* The texts written under the name of the call-graph file.
CallGraphFiles ==
    {written[i].text : i \in {j \in 1..Len(written) : written[j].file = OutputName(args.output)}}

\* C19: with cg and output set, the file of the call graph is a well-formed
\* JSON array of the {source, target} objects of the edges, one for each
\* edge in the order of iteration, and it is the array build() returns:
\* for no edge, for one edge and for more.
C19_CallGraphFileIsJSON ==
    (pc = "done" /\ args.cg /\ args.output.base # "" /\ ~result.threw) =>
        /\ CallGraphFiles # {}
        /\ \A text \in CallGraphFiles :
               /\ JSONparse(text).ok
               /\ JSONparse(text).array = result.returned
        /\ result.returned =
               [i \in 1..Cardinality(edges) |->
                   buildBinding(calleeVertex(iter(edges)[i].call), TargetVertex(iter(edges)[i]))]

----------------------------------------------------------------------------
(* C20: the file filter.                                                   *)

\* The rules of the list whose pattern matches the path.
MatchingRules(file, rules) ==
    {i \in 1..Len(rules) : test(trim(Tail(rules[i])), file)}

\* No rule matches the path, or the last one that does starts with `+`.
Included(file, rules) ==
    \/ MatchingRules(file, rules) = {}
    \/ \E last \in MatchingRules(file, rules) :
          /\ \A i \in MatchingRules(file, rules) : i <= last
          /\ Head(rules[last]) = "+"

\* The files of the parsed collection.
AnalysedFiles(tree) == {tree[n].file : n \in {m \in 1..Len(tree) : tree[m].type = "Program"}}

\* C20: the rules are applied in the order of the list and a later rule
\* overrides an earlier one: the files that are analysed are those of the
\* input list that no rule matches or whose last matching rule starts with
\* `+`, in the order of the input list.
C20_FilterRulesInOrder ==
    [][pc = "start" =>
          /\ files' = SelectSeq(files, LAMBDA file : Included(file, filter))
          /\ AnalysedFiles(ast') = {PathString(files'[i]) : i \in 1..Len(files')}
          /\ filter' = filter]_vars

\* A file that a `-` rule left out and a later `+` rule took back is
\* analysed, and a file whose last matching rule is a `-` rule, after a
\* matching `+` rule, is not.
C20_Witness ==
    /\ pc = "done"
    /\ \E i \in 1..Len(files) : \E r1, r2 \in 1..Len(filter) :
           /\ r1 < r2
           /\ {r1, r2} \subseteq MatchingRules(files[i], filter)
           /\ Head(filter[r1]) = "-" /\ Head(filter[r2]) = "+"
           /\ attr[functions[i]].enclosingFile = PathString(files[i])
    /\ \E gone \in UNION {{fl[i] : i \in 1..Len(fl)} : fl \in FilterFileLists} :
           \E r1, r2 \in 1..Len(filter) :
              /\ r1 < r2
              /\ {r1, r2} \subseteq MatchingRules(gone, filter)
              /\ Head(filter[r1]) = "+" /\ Head(filter[r2]) = "-"
              /\ ~Included(gone, filter)
              /\ PathString(gone) \notin AnalysedFiles(ast)

----------------------------------------------------------------------------
(* C26: the enclosingFunction attribute.                                   *)

\* C26: after decoration the enclosingFunction attribute of every node is
\* the innermost function that strictly contains it in the parsed tree (none
\* at top level), and the visitor has written the attributes of every node
\* once.
C26_EnclosingFunctionIsInnermost ==
    Decorated =>
        \A n \in NodeIds :
            ast[n].type # "ProgramCollection" =>
                /\ attr[n].enclosingFunction = EnclosingFn(n)
                /\ attr[n].visits = 1

----------------------------------------------------------------------------
(* C30: the enclosingFile attribute.                                       *)

\* C30: after decoration of a collection of several files every node of a
\* program, the Program node included, has the enclosingFile attribute of its
\* own program.
C30_EnclosingFileIsOwnProgram ==
    (Decorated /\ Cardinality({n \in NodeIds : ast[n].type = "Program"}) > 1) =>
        \A n \in NodeIds :
            ast[n].type # "ProgramCollection" =>
                attr[n].enclosingFile = ast[ProgramOf(n)].file

----------------------------------------------------------------------------
(* C28: the forms of a label.                                              *)

\* The label is P:anon[i], for the label P of the enclosing function, or
\* of global, and the index i of the function.
IsNumberedLabel(f) ==
    /\ attr[f].anonIndex > 0
    /\ funcname(f) = encFuncName(attr[f].enclosingFunction)
                        \o ":anon[" \o ToString(attr[f].anonIndex) \o "]"

\* C28: the label of a registered function is the name of its id, declared
\* or made from a key, or the name its parent gives, or P:anon[i]; it is
\* never the bare `anon` and never undefined; and the functions with an
\* anonymous index are exactly those whose label is P:anon[i].
C28_LabelIsNameOrNumbered ==
    Decorated =>
        \A i \in 1..Len(functions) :
            LET f == functions[i]
            IN  /\ funcname(f) \notin {"anon", Undefined, TypeError, ""}
                /\ \/ id[f].kind \in {"node", "synth"} /\ funcname(f) = id[f].name
                   \/ id[f].kind = "null" /\ hasParentName(attr[f].parent)
                      /\ funcname(f) = AssignedName(f)
                   \/ id[f].kind = "null" /\ IsNumberedLabel(f)
                /\ attr[f].anonIndex # 0 <=> IsNumberedLabel(f)

\* A decorated program with a function named by its parent and a function
\* assigned to a member, which the parent does not name and which has an
\* index.
C28_Witness ==
    /\ Decorated
    /\ \E f, g \in FunctionNodes :
           /\ id[f].kind = "null" /\ hasParentName(attr[f].parent)
           /\ attr[f].anonIndex = 0 /\ funcname(f) = "x"
           /\ id[g].kind = "null" /\ TypeOf(attr[g].parent) = "AssignmentExpression"
           /\ IsNumberedLabel(g)

----------------------------------------------------------------------------
(* C27: the function that stands for a step.                               *)

\* C27: when a step is an identifier and a function node is chosen to stand
\* for it, as the enclosing function of the pseudo call-site, that function
\* is the one bound at the declaration the identifier resolves to in its
\* scope, never a function of another scope with the same label.
C27_StepFunctionIsTheResolvedOne ==
    pc \in {"step", "interprocedural", "callgraph", "done"} =>
        \A i \in 1..Len(pseudoCalls) :
            (/\ ast[pseudoCalls[i].loc].type = "Identifier"
             /\ IsFunction(pseudoCalls[i].enclosingFunction))
            => pseudoCalls[i].enclosingFunction = FunctionOf(pseudoCalls[i].loc)

----------------------------------------------------------------------------
(* C25: Step calls are handled without an error.                           *)

\* The edges of the call graph whose source is a pseudo call-site.
PseudoEdges == {e \in edges : e.call > Len(ast)}

\* C25: handling a Step call never raises an error and never leaves an edge
\* whose source cannot be labelled: whatever the arguments of Step are,
\* build() ends without an exception and every edge of the call graph whose
\* source is a pseudo call-site is rendered with a defined source label.
C25_StepEdgesAreRendered ==
    pc = "done" =>
        /\ ~result.threw
        /\ \A e \in PseudoEdges :
              /\ addNode(calleeVertex(e.call)).label \notin {TypeError, Undefined}
              /\ \E b \in result.edges : b = buildBinding(calleeVertex(e.call), TargetVertex(e))

----------------------------------------------------------------------------
(* C24: the targets of a pseudo call-site.                                 *)

\* Step calls whose first declared function a calls or returns a function:
\* function a(){ BODY } function b(){} function c(){} Step(...), the steps
\* being a, b and c in any order, under every strategy.
StepBodies ==
    {<<>>,                                                                  \* function a(){}
     <<ReturnStmt(Fn("FunctionExpression", "h", <<>>, <<>>))>>,              \* return function h(){};
     <<ReturnStmt(IdentExpr("c"))>>,                                         \* return c;
     <<ExprStmt(Call("CallExpression", IdentExpr("c"), <<>>))>>}             \* c();
StepBodyPrograms ==
    {Collection(<<Program("m.js",
                          <<FnDecl("a", <<>>, body), FnDecl("b", <<>>, <<>>), FnDecl("c", <<>>, <<>>),
                            ExprStmt(Call("CallExpression", IdentExpr("Step"),
                                          [i \in 1..Len(steps) |-> IdentExpr(steps[i])]))>>)>>) :
        body \in StepBodies, steps \in SeqsUpTo({"a", "b", "c"}, MaxStepArgs)}
InitStepBodies == InitRun(StepBodyPrograms, StrategyConfigs)
SpecStepBodies == InitStepBodies /\ [][Next]_vars

\* The functions that flow into expression nd.
FlowsInto(nd) == {f \in FunctionNodes : exprVertex(nd) \in Reachable({funcVertex(f)})}

\* C24: for Step(f_1, ..., f_n), the targets of the pseudo call-site of the
\* pair (f_k, f_k+1) are only the functions that flow into the argument
\* f_k+1, whatever the body of f_k calls or returns, and the targets of the
\* Step call-site itself are only the functions that flow into its callee or
\* into f_1, under every strategy.
C24_PseudoCallTargetsAreTheNextStep ==
    pc \in {"callgraph", "done"} =>
        \A e \in edges :
            /\ e.call > Len(ast) =>
                  e.fn \in FlowsInto(pseudoCalls[e.call - Len(ast)].callee)
            /\ (e.call <= Len(ast) /\ isStepCall(e.call) /\ Steps(e.call) # <<>>) =>
                  e.fn \in FlowsInto(Child(e.call, "callee")) \cup FlowsInto(Steps(e.call)[1])

----------------------------------------------------------------------------
(* C29: the labels of a file do not depend on the other files.             *)

\* The files of a run are analysed again: some of them, in some order.
runOnOtherList ==
    \E fs \in UNION {[1..k -> {files[i] : i \in 1..Len(files)}] : k \in 1..Len(files)} :
        /\ \A i, j \in 1..Len(fs) : fs[i] = fs[j] => i = j
        /\ runAgain(ast, fs)
NextOtherList == Next \/ runOnOtherList
SpecOtherList == InitFiles /\ [][NextOtherList]_vars

\* The functions of one file in a registry, each with its place in the file
\* and its label.
LabelsOf(entries, file) ==
    LET own == SelectSeq(entries, LAMBDA e : e.file = file)
    IN  [i \in 1..Len(own) |-> [at |-> own[i].at, type |-> own[i].type, label |-> own[i].label]]

\* The functions of program P that are numbered at top level.
NumberedAtTopLevel(P) ==
    {f \in FunctionNodes : ProgramOf(f) = P /\ attr[f].enclosingFunction = 0
                           /\ attr[f].anonIndex # 0}

\* C29: the label of every function of a file is the same whatever other
\* files are analysed with it, before or after it, and the same as when the
\* file is analysed alone; the numbers of the top-level anonymous functions
\* of every file start at 1.
C29_LabelsAreThoseOfTheFileAlone ==
    pc = "done" =>
        /\ previous.done =>
              \A i \in 1..Len(files) :
                  LabelsOf(Outcome.functions, PathString(files[i]))
                      = LabelsOf(previous.functions, PathString(files[i]))
        /\ \A P \in {n \in NodeIds : ast[n].type = "Program"} :
              NumberedAtTopLevel(P) # {} =>
                  \E f \in NumberedAtTopLevel(P) : attr[f].anonIndex = 1

----------------------------------------------------------------------------
(* C22: a file that does not parse.                                        *)

\* Collections of which one file does not parse; the file holds what the
\* parser read before the error.
UnparsedCollections ==
    UNION {{[tree EXCEPT ![P].name = "SyntaxError"] :
               P \in {n \in 1..Len(tree) : tree[n].type = "Program"}} :
           tree \in Collections(FileSites, MaxSites)}
InitUnparsed == InitOn(UnparsedCollections)

\* The files of a run that parsed are analysed again, without the others.
runWithoutTheFailing ==
    LET parsed == SelectSeq(files, LAMBDA f : PathString(f) \in AnalysedFiles(ast))
    IN  /\ parsed # <<>>
        /\ parsed # files
        /\ runAgain(ast, parsed)
NextWithout == Next \/ runWithoutTheFailing
SpecUnparsed == InitUnparsed /\ [][NextWithout]_vars

\* C22: when a file of the list does not parse, a warning is written, the
\* collection holds no node of that file, and the run goes on to its end;
\* the registries of functions and of call-sites, with the enclosing-file
\* attribute and the label of every entry, are those of the run on the list
\* without that file.
C22_FailingFileIsLeftOut ==
    /\ [][(pc = "start" /\ pc' = "init") =>
             \A i \in 1..Len(files') :
                 ParseFails(ast, PathString(files'[i])) =>
                     /\ \E w \in 1..Len(warnings') :
                           warnings'[w].msg
                               = "Warning: Parsing failed for" \o PathString(files'[i])
                     /\ PathString(files'[i]) \notin AnalysedFiles(ast')
                     /\ \A n \in 1..Len(ast') : ast'[n].name # "SyntaxError"]_vars
    /\ []((pc = "done" /\ previous.done) =>
             /\ Len(previous.files) > Len(files)
             /\ Outcome.functions = previous.functions
             /\ Outcome.calls = previous.calls)

\* C22, witness: f1.js does not parse and f2.js holds (function(){})(); the
\* run on both wrote the warning and labelled the function global:anon[1], as
\* does the run on f2.js alone.
C22_Witness ==
    /\ pc = "done"
    /\ previous.done
    /\ previous.files = <<<<"f1.js">>, <<"f2.js">>>>
    /\ files = <<<<"f2.js">>>>
    /\ previous.warnings # <<>>
    /\ \E i \in 1..Len(functions) :
          /\ Outcome.functions[i].label = "global:anon[1]"
          /\ previous.functions[i].label = "global:anon[1]"
          /\ previous.functions[i].enclosingFile = "f2.js"

----------------------------------------------------------------------------
(* C23: the name of a file is only a name.                                 *)

\* The names a file is renamed to.
NewNames == {<<"g", ".", "j", "s">>, <<"l", "/", "g", ".", "j", "s">>}

\* One file of the list is renamed, its content and its place in the list
\* stay, and the tool is run again.
runRenamed ==
    \E i \in 1..Len(files), new \in NewNames :
        runAgain([n \in 1..Len(ast) |->
                     IF ast[n].type = "Program" /\ ast[n].file = PathString(files[i])
                     THEN [ast[n] EXCEPT !.file = PathString(new)]
                     ELSE ast[n]],
                 [files EXCEPT ![i] = new])
NextRenamed == Next \/ runRenamed

\* Files that hold declarations and calls of function literals.
InitRenamed == InitOn(Collections(Sites({"decl", "callee"}, {"fe"}), MaxSites))
SpecRenamed == InitRenamed /\ [][NextRenamed]_vars

\* The name the file had in the run before.
FileBefore(file) ==
    IF \E i \in 1..Len(files) : PathString(files[i]) = file
    THEN PathString(previous.files[CHOOSE i \in 1..Len(files) : PathString(files[i]) = file])
    ELSE file

\* An endpoint of an edge, and the acg string of a vertex, with the names of
\* the run before.
EndpointBefore(node) == [node EXCEPT !.file = FileBefore(@)]
ppAcgBefore(v) ==
    IF v.k = "Callee" THEN ppPos(FileBefore(CallEnclosingFile(v.n)), CallLoc(v.n))
    ELSE IF v.k = "Func" THEN ppPos(FileBefore(attr[v.n].enclosingFile), v.n)
    ELSE v.s

----------------------------------------------------------------------------
(* C21: a run without input.                                               *)

\* path.resolve, the working directory being the root.
resolve(file) == IF file # <<>> /\ Head(file) = "/" THEN file ELSE <<"/">> \o file

\* String.prototype.endsWith
endsWith(str, suffix) ==
    /\ Len(str) >= Len(suffix)
    /\ SubSeq(str, Len(str) - Len(suffix) + 1, Len(str)) = suffix

\* setFiles: the extensions of the files that are analysed.
SupportedExtensions ==
    {<<".", "j", "s">>, <<".", "j", "s", "x">>, <<".", "t", "s">>, <<".", "t", "s", "x">>,
     <<".", "v", "u", "e">>}

\* fs.existsSync: the files on the disk are those the sources hold.
existsSync(file) == \E n \in 1..Len(ast) : ast[n].type = "Program" /\ ast[n].file = PathString(file)

\* setFiles: the loop over inputList; no path of the model is a directory.
RECURSIVE collect(_, _)
collect(inputList, filelist) ==
    IF inputList = <<>> THEN filelist
    ELSE LET file == resolve(Head(inputList))
         IN  collect(Tail(inputList),
                     IF existsSync(file) /\ \E x \in SupportedExtensions : endsWith(file, x)
                     THEN Append(filelist, file)
                     ELSE filelist)

\* setFiles: the console.warn of the paths that do not exist.
RECURSIVE missing(_)
missing(inputList) ==
    IF inputList = <<>> THEN <<>>
    ELSE (IF existsSync(resolve(Head(inputList))) THEN <<>>
          ELSE <<"The path \"" \o PathString(resolve(Head(inputList))) \o "\" does not exists.">>)
         \o missing(Tail(inputList))

\* setFiles(inputList): `files` holds inputList before, this.files after.
setFiles ==
    /\ pc = "files"
    /\ files' = unique(collect(files, <<>>))
    /\ IF files' = <<>>
       THEN /\ stderr' = stderr \o missing(files) \o <<"Input file list is empty!">>
            /\ exitCode' = <<ExitStatus(-1)>>
            /\ pc' = "exit"
       ELSE /\ stderr' = stderr \o missing(files)
            /\ pc' = "start"
            /\ UNCHANGED exitCode
    /\ UNCHANGED <<ast, decoration, scope, fg, pseudoCalls, edges, result, args, filter,
                   previous, edgesOfFunctionsCalled, written>>

\* The length of the input list.
MaxInputs == 2

\* The disk holds /a.js, /b.js and /a.md; the input names them, a.js by a
\* relative path too, and /c.js, which does not exist; the filter has no
\* rule, or one that excludes a file, or one that excludes every file.
InputPaths ==
    {<<"/", "a", ".", "j", "s">>, <<"a", ".", "j", "s">>, <<"/", "b", ".", "j", "s">>,
     <<"/", "c", ".", "j", "s">>, <<"/", "a", ".", "m", "d">>}
InputConfigs ==
    {[args |-> DefaultArgs, filter |-> rules, files |-> inputList] :
        rules \in {<<>>, <<Chars("-a.js")>>, <<Chars("-.js")>>},
        inputList \in UNION {[1..k -> InputPaths] : k \in 1..MaxInputs}}
InitInput ==
    InitAt({Collection(<<Program("/a.js", <<FnDecl("d", <<>>, <<>>)>>),
                         Program("/b.js", <<FnDecl("d", <<>>, <<>>)>>),
                         Program("/a.md", <<>>)>>)},
           InputConfigs, "files")
NextInput == Next \/ setFiles
SpecInput == InitInput /\ [][NextInput]_vars

\* C21: when the list of the files to analyse is empty, because no path of
\* the input is an existing file of a supported extension or because the
\* filter leaves no file, the process exits with a non-zero code, nothing is
\* analysed and no file is written.
C21_EmptyInputExits ==
    (pc # "files" /\ files = <<>>) =>
        /\ pc = "exit"
        /\ exitCode # <<>> /\ exitCode[1] # 0
        /\ functions = <<>> /\ fg = {} /\ edges = {}
        /\ written = <<>>

============================================================================
